---- MODULE Spec2Model ----
(***************************************************************************)
(* Model of the concurrent consensus-validation engine of qa-ai:           *)
(*   - GeminiClient.generate_response   (src/agents/gemini_client.py)      *)
(*   - MultiAgentValidator.validate_question                               *)
(*                                      (src/agents/multi_agent_validator.py) *)
(*   - QuestionProcessor.process_questions / _process_single_question      *)
(*                                      (src/workers/question_processor.py)*)
(*                                                                         *)
(*   - AnswererAgent / ValidatorAgent    (src/agents/answerer_agent.py,     *)
(*                                        src/agents/validator_agent.py)   *)
(*                                                                         *)
(* Specifications of the module:                                           *)
(*   SpecClient    one generate_response call (retry / backoff);           *)
(*   SpecLoop      one validate_question call (answerer / validator loop); *)
(*   SpecLoopFair  SpecLoop where every role call completes;               *)
(*   SpecAgents    one call of a role agent (prompt, remote call, parse);  *)
(*   Spec          overlapping process_questions calls on one              *)
(*                 QuestionProcessor (semaphore, executor, gather);        *)
(*   SpecQuestion  one question through _process_single_question, the      *)
(*                 role calls of its loop visible;                         *)
(*   SpecWired     process_questions on the QuestionProcessor the server   *)
(*                 builds from the repository's own agents;                *)
(*   SpecTimed     process_questions with the clock of processingTimeMs;   *)
(*   SpecExecutor  process_questions with the executor of run_in_executor; *)
(*   SpecUnits     a batch of two questions, the frames of their loops     *)
(*                 visible;                                                *)
(*   SpecServer    the answer_questions endpoint over process_questions;   *)
(*   SpecRemote    one validate_question call, the generate_content calls  *)
(*                 of its role calls visible;                              *)
(*   SpecGate      one process_questions call under fair scheduling.       *)
(***************************************************************************)
EXTENDS Integers, Sequences, FiniteSets, TLC

VARIABLES
    \* ---- GeminiClient (gemini_client.py) ----
    max_retries,          \* self.max_retries
    base_retry_delay_ms,  \* self.base_retry_delay_ms
    retry_multiplier,     \* self.retry_multiplier
    attempt,              \* loop variable of "for attempt in range(1, max_retries + 1)"; 0 before the loop
    last_exception,       \* local last_exception (str(e) of the caught exception, NoneVal before)
    gpc,                  \* position in generate_response
    gresult,              \* value returned / exception raised by generate_response
    api_calls,            \* history: outcome of each self.model.generate_content(prompt) call
    sleeps,               \* history: argument (in ms) of each time.sleep call
    \* ---- MultiAgentValidator (multi_agent_validator.py) ----
    max_iterations,       \* self.max_iterations
    loop,                 \* frame of validate_question: iteration, previous_answer, criticism,
                          \* current_answer, reasoning, position (pc) and outcome (result)
    role_calls,           \* history: every answerer / validator call with its arguments and outcome
    \* ---- QuestionProcessor (question_processor.py) ----
    max_concurrent_workers, \* self.max_concurrent_workers
    semaphore,            \* value of self.semaphore (free permits)
    cpc,                  \* per process_questions call: "idle", "gathering", "returned"
    questions,            \* per call: its argument, the list of questions
    tasks,                \* per call: the _process_single_question coroutines given to gather
    final_results,        \* per call: the list process_questions returns
    \* ---- AnswererAgent / ValidatorAgent (answerer_agent.py, validator_agent.py) ----
    agent,                \* the role-agent call in progress: its arguments, position (pc),
                          \* prompt, response text and outcome
    clock,                 \* time.time() in ticks of 1/TicksPerMs ms (question_processor.py)
    executor,              \* the event loop's default executor: max_workers, busy threads, queued work items
    response              \* what the answer_questions endpoint gave back (server.py)

clientVars == <<max_retries, base_retry_delay_ms, retry_multiplier, attempt,
                last_exception, gpc, gresult, api_calls, sleeps>>

loopVars == <<max_iterations, loop, role_calls>>

procVars == <<max_concurrent_workers, semaphore, cpc, questions, tasks, final_results>>

agentVars == <<agent>>

extVars == <<clock, executor, response>>

vars == <<clientVars, loopVars, procVars, agentVars, extVars>>

\* What each component leaves alone.
nonClientVars == <<loopVars, procVars, agentVars, extVars>>
nonLoopVars == <<clientVars, procVars, agentVars, extVars>>
nonProcVars == <<clientVars, role_calls, loop, agentVars, extVars>>
nonAgentVars == <<clientVars, loopVars, procVars, extVars>>

\* The concurrent callers of process_questions on the one QuestionProcessor.
Callers == {"c1", "c2"}

\* The frame of validate_question when no call is in progress.
IdleFrame == [pc |-> "idle"]

\* No answer_question / validate_answer call is in progress.
IdleCall == [pc |-> "idle"]

NoneVal == "<None>"

\* run_in_executor(None, ...) uses the event loop's default executor, a
\* ThreadPoolExecutor() with max_workers = min(32, os.cpu_count() + 4).
DefaultMaxWorkers(cpus) == IF cpus + 4 < 32 THEN cpus + 4 ELSE 32

\* The answer_questions endpoint has not answered.
NoResponse == [kind |-> "none"]

\* The default executor of a machine with cpus processors, nothing submitted.
IdleExecutor(cpus) == [max_workers |-> DefaultMaxWorkers(cpus), busy |-> 0, queue |-> <<>>]

\* Truthiness of an optional string ("if result.error:", "if previous_answer
\* and criticism:", "if not selected_answer:"): it is neither None nor the
\* empty string.
Populated(v) == v # NoneVal /\ v # ""

(***************************************************************************)
(* Bounds of the model.                                                    *)
(***************************************************************************)
MaxRetries == 3          \* max_retries ranges over 1..MaxRetries
MaxDelayMs == 2          \* base_retry_delay_ms ranges over 0..MaxDelayMs
MaxMultiplier == 2       \* retry_multiplier ranges over 1..MaxMultiplier
MaxIterations == 3       \* max_iterations ranges over 1..MaxIterations (validate_question alone)
MaxWorkers == 2          \* max_concurrent_workers ranges over 1..MaxWorkers
MaxQuestions == 2        \* questions submitted over all process_questions calls together
MaxBatchIterations == 2  \* max_iterations of the validator behind the QuestionProcessor
MaxOptions == 3          \* a question has 2..MaxOptions answer options
MaxLines == 3            \* a response text has 1..MaxLines lines
MaxBatch == 3            \* questions in the batch given to the wired QuestionProcessor
TicksPerMs == 2          \* clock ticks in one millisecond
MaxClock == 4            \* the clock runs from 0 to MaxClock ticks
MaxCpus == 1             \* os.cpu_count() ranges over 1..MaxCpus
MaxGate == 6             \* max_concurrent_workers and batch size where the executor is modelled

(***************************************************************************)
(* GeminiClient.generate_response                                          *)
(***************************************************************************)

\* Non-empty texts the remote model may answer with.
Texts == {"t1", "t2"}

\* Errors self.model.generate_content may raise (str(e) of each).
ApiErrors == {"e1", "e2"}

\* What one call of self.model.generate_content(prompt) can do: return a
\* response with a non-empty text, return a response whose text is empty,
\* return no response at all (None), or raise.
ApiOutcomes ==
    [kind : {"text"}, val : Texts \cup {""}]
        \cup [kind : {"none"}, val : {NoneVal}]
        \cup [kind : {"error"}, val : ApiErrors]

RECURSIVE Pow(_, _)
Pow(b, e) == IF e = 0 THEN 1 ELSE b * Pow(b, e - 1)

\* "if response and response.text": the response is accepted.
WrongAcceptsEmptyText(o) == o.kind = "text"
ResponseAccepted(o) == o.kind = "text" /\ o.val # ""

\* The exception caught by "except Exception as e" for a rejected outcome:
\* the error of the call itself, or the ValueError raised for an empty response.
WrongKeepsFirstException(o, previous) ==
    IF previous # NoneVal THEN previous
    ELSE IF o.kind = "error" THEN o.val ELSE "Empty response from Gemini API"
CaughtException(o, previous) ==
    IF o.kind = "error" THEN o.val ELSE "Empty response from Gemini API"

\* delay_ms = base_retry_delay_ms * (retry_multiplier ** (attempt - 1))
WrongRetryDelayMs(base, mult, att) == base * Pow(mult, att)
RetryDelayMs(base, mult, att) == base * Pow(mult, att - 1)

\* "if attempt < self.max_retries": a wait precedes the next attempt.
RetryRemains(att, maxr) == att < maxr

\* The exception raised once all retries are exhausted:
\* Exception(f"Gemini API call failed after {max_retries} attempts: {last_exception}")
ExhaustedError(maxr, last) ==
    [type |-> "Exception", prefix |-> "Gemini API call failed after",
     attempts |-> maxr, cause |-> last]

InitClient ==
    /\ max_retries \in 1..MaxRetries
    /\ base_retry_delay_ms \in 0..MaxDelayMs
    /\ retry_multiplier \in 1..MaxMultiplier
    /\ attempt = 0
    /\ last_exception = NoneVal
    /\ gpc = "attempt"
    /\ gresult = NoneVal
    /\ api_calls = <<>>
    /\ sleeps = <<>>
    \* no validate_question and no process_questions call is in progress
    /\ max_iterations = 1
    /\ loop = IdleFrame
    /\ role_calls = <<>>
    /\ max_concurrent_workers = 1
    /\ semaphore = 1
    /\ cpc = [c \in Callers |-> "idle"]
    /\ questions = [c \in Callers |-> <<>>]
    /\ tasks = [c \in Callers |-> <<>>]
    /\ final_results = [c \in Callers |-> <<>>]
    /\ agent = IdleCall
    /\ clock = 0
    /\ executor = IdleExecutor(1)
    /\ response = NoResponse

\* (variant: the accepted text is kept but the loop goes on to the retry logic)
AttemptSucceedsThenRetries ==
    /\ gpc = "attempt"
    /\ attempt < max_retries
    /\ \E o \in ApiOutcomes :
        /\ ResponseAccepted(o)
        /\ attempt' = attempt + 1
        /\ api_calls' = Append(api_calls, o)
        /\ gresult' = o.val
        /\ gpc' = "failed"
    /\ UNCHANGED <<max_retries, base_retry_delay_ms, retry_multiplier,
                   last_exception, sleeps>>
    /\ UNCHANGED nonClientVars

\* One iteration of the for loop whose call is accepted: return response.text.
AttemptSucceeds ==
    /\ gpc = "attempt"
    /\ attempt < max_retries
    /\ \E o \in ApiOutcomes :
        /\ ResponseAccepted(o)
        /\ attempt' = attempt + 1
        /\ api_calls' = Append(api_calls, o)
        /\ gresult' = o.val
        /\ gpc' = "returned"
    /\ UNCHANGED <<max_retries, base_retry_delay_ms, retry_multiplier,
                   last_exception, sleeps>>
    /\ UNCHANGED nonClientVars

\* One iteration of the for loop whose call raises or whose response is
\* rejected: the except branch records the exception.
AttemptFails ==
    /\ gpc = "attempt"
    /\ attempt < max_retries
    /\ \E o \in ApiOutcomes :
        /\ ~ResponseAccepted(o)
        /\ attempt' = attempt + 1
        /\ api_calls' = Append(api_calls, o)
        /\ last_exception' = CaughtException(o, last_exception)
        /\ gpc' = "failed"
    /\ UNCHANGED <<max_retries, base_retry_delay_ms, retry_multiplier,
                   gresult, sleeps>>
    /\ UNCHANGED nonClientVars

\* The except branch when attempts remain: time.sleep(delay_ms / 1000.0),
\* then the next iteration.
Backoff ==
    /\ gpc = "failed"
    /\ RetryRemains(attempt, max_retries)
    /\ sleeps' = Append(sleeps, RetryDelayMs(base_retry_delay_ms, retry_multiplier, attempt))
    /\ gpc' = "attempt"
    /\ UNCHANGED <<max_retries, base_retry_delay_ms, retry_multiplier,
                   attempt, last_exception, gresult, api_calls>>
    /\ UNCHANGED nonClientVars

\* The except branch of the last attempt: no wait, the loop ends and
\* generate_response raises.
Exhausted ==
    /\ gpc = "failed"
    /\ ~RetryRemains(attempt, max_retries)
    /\ gresult' = ExhaustedError(max_retries, last_exception)
    /\ gpc' = "raised"
    /\ UNCHANGED <<max_retries, base_retry_delay_ms, retry_multiplier,
                   attempt, last_exception, api_calls, sleeps>>
    /\ UNCHANGED nonClientVars

NextClient == AttemptSucceeds \/ AttemptFails \/ Backoff \/ Exhausted

(***************************************************************************)
(* MultiAgentValidator.validate_question                                   *)
(*                                                                         *)
(* The answerer and validator agents are the collaborators handed to       *)
(* MultiAgentValidator.__init__; a call of either returns a response       *)
(* object or raises.                                                       *)
(***************************************************************************)

\* Selections an AnswererResponse may carry, and its reasoning.
Letters == {"A", "B"}
Reasonings == {"r1", "r2"}

\* Criticism texts a ValidatorResponse may carry (NoneVal: no criticism).
Criticisms == {"c1"}

\* str(e) of the exceptions a role call may raise: the retry exhaustion of
\* generate_response, the ValueError of _parse_response, or an exception that
\* carries no message (str(e) is the empty string).
RoleErrors == {"Gemini API call failed after retries", "Could not extract label from response", ""}

\* self.answerer_agent.answer_question(question, previous_answer, criticism)
AnswererOutcomes ==
    [kind : {"ok"}, selected_answer : Letters, reasoning : Reasonings]
        \cup [kind : {"raise"}, error : RoleErrors]

\* self.validator_agent.validate_answer(question, current_answer, reasoning)
ValidatorOutcomes ==
    [kind : {"ok"}, verdict : {"AGREE", "DISAGREE"}, criticism : Criticisms \cup {NoneVal}]
        \cup [kind : {"raise"}, error : RoleErrors]

\* ValidatorResponse.agrees()
Agrees(o) == o.verdict = "AGREE"

\* ValidationResult(selected_answer, iterations, consensus_reached)
ValidationResult(sel, its, cons) ==
    [kind |-> "ValidationResult", selected_answer |-> sel, iterations |-> its,
     consensus_reached |-> cons]

\* An exception leaving validate_question.
Raised(e) == [kind |-> "raise", error |-> e]

\* "while iteration < self.max_iterations"
WrongLoopContinuesOnceMore(it, maxit) == it <= maxit
WrongLoopStopsEarly(it, maxit) == it + 1 < maxit
LoopContinues(it, maxit) == it < maxit

\* The return inside the loop, on agreement (lines 112-116).
WrongAgreedResultStale(ls) ==
    ValidationResult(IF ls.previous_answer = NoneVal THEN ls.current_answer
                     ELSE ls.previous_answer, ls.iteration, TRUE)
AgreedResult(ls) == ValidationResult(ls.current_answer, ls.iteration, TRUE)

\* The return after the loop, the maximum being reached (lines 135-139).
ForcedResult(ls) == ValidationResult(ls.current_answer, ls.iteration, FALSE)

\* The loop condition, evaluated on entry and after each disagreement. After
\* the loop current_answer is read: it is unbound when no iteration ran.
WhileCheck(ls, maxit) ==
    IF LoopContinues(ls.iteration, maxit) THEN [ls EXCEPT !.pc = "answer"]
    ELSE IF ls.current_answer = NoneVal
         THEN [ls EXCEPT !.pc = "raised", !.result = Raised("UnboundLocalError")]
         ELSE [ls EXCEPT !.pc = "returned", !.result = ForcedResult(ls)]

\* Lines 78-80 and the first evaluation of the loop condition.
LoopStart(maxit) ==
    WhileCheck([iteration |-> 0, previous_answer |-> NoneVal, criticism |-> NoneVal,
                current_answer |-> NoneVal, reasoning |-> NoneVal,
                pc |-> "entry", result |-> NoneVal], maxit)

\* Lines 83-97: iteration += 1 and the answerer call with outcome o.
\* (variant: a failed answerer call is passed over and the validator reviews
\* what there is)
WrongAnswerStepPassesFailure(ls, o) ==
    IF o.kind = "raise"
    THEN [ls EXCEPT !.iteration = @ + 1, !.current_answer = "A", !.reasoning = "r1",
                    !.pc = "validate"]
    ELSE [ls EXCEPT !.iteration = @ + 1,
                    !.current_answer = o.selected_answer,
                    !.reasoning = o.reasoning,
                    !.pc = "validate"]
AnswerStep(ls, o) ==
    IF o.kind = "raise"
    THEN [ls EXCEPT !.iteration = @ + 1, !.pc = "raised", !.result = Raised(o.error)]
    ELSE [ls EXCEPT !.iteration = @ + 1,
                    !.current_answer = o.selected_answer,
                    !.reasoning = o.reasoning,
                    !.pc = "validate"]

\* Lines 99-126: the validator call with outcome o, the consensus check, the
\* hand-over to the next iteration and the loop condition.
WrongValidateStepSkipsFailure(ls, o, maxit) ==
    IF o.kind = "raise"
    THEN WhileCheck([ls EXCEPT !.previous_answer = ls.current_answer], maxit)
    ELSE IF Agrees(o)
    THEN [ls EXCEPT !.pc = "returned", !.result = AgreedResult(ls)]
    ELSE WhileCheck([ls EXCEPT !.previous_answer = ls.current_answer,
                               !.criticism = o.criticism], maxit)
\* (variant: the first criticism is kept for all later iterations)
WrongValidateStepKeepsCriticism(ls, o, maxit) ==
    IF o.kind = "raise"
    THEN [ls EXCEPT !.pc = "raised", !.result = Raised(o.error)]
    ELSE IF Agrees(o)
    THEN [ls EXCEPT !.pc = "returned", !.result = AgreedResult(ls)]
    ELSE WhileCheck([ls EXCEPT !.previous_answer = ls.current_answer,
                               !.criticism = IF ls.iteration = 1 THEN o.criticism
                                             ELSE ls.criticism], maxit)
ValidateStep(ls, o, maxit) ==
    IF o.kind = "raise"
    THEN [ls EXCEPT !.pc = "raised", !.result = Raised(o.error)]
    ELSE IF Agrees(o)
    THEN [ls EXCEPT !.pc = "returned", !.result = AgreedResult(ls)]
    ELSE WhileCheck([ls EXCEPT !.previous_answer = ls.current_answer,
                               !.criticism = o.criticism], maxit)

\* Every outcome validate_question can have from frame ls on.
RECURSIVE LoopOutcomes(_, _)
LoopOutcomes(ls, maxit) ==
    IF ls.pc \in {"returned", "raised"} THEN {ls.result}
    ELSE IF ls.pc = "answer"
    THEN UNION {LoopOutcomes(AnswerStep(ls, o), maxit) : o \in AnswererOutcomes}
    ELSE UNION {LoopOutcomes(ValidateStep(ls, o, maxit), maxit) : o \in ValidatorOutcomes}

\* Every outcome of self.validator.validate_question(question).
ValidateQuestionOutcomes(maxit) == LoopOutcomes(LoopStart(maxit), maxit)

InitLoop ==
    /\ max_iterations \in 1..MaxIterations
    /\ loop = LoopStart(max_iterations)
    /\ role_calls = <<>>
    \* no generate_response and no process_questions call is in progress
    /\ max_retries = 1
    /\ base_retry_delay_ms = 0
    /\ retry_multiplier = 1
    /\ attempt = 0
    /\ last_exception = NoneVal
    /\ gpc = "idle"
    /\ gresult = NoneVal
    /\ api_calls = <<>>
    /\ sleeps = <<>>
    /\ max_concurrent_workers = 1
    /\ semaphore = 1
    /\ cpc = [c \in Callers |-> "idle"]
    /\ questions = [c \in Callers |-> <<>>]
    /\ tasks = [c \in Callers |-> <<>>]
    /\ final_results = [c \in Callers |-> <<>>]
    /\ agent = IdleCall
    /\ clock = 0
    /\ executor = IdleExecutor(1)
    /\ response = NoResponse

\* One iteration's answerer call.
CallAnswerer ==
    /\ loop.pc = "answer"
    /\ \E o \in AnswererOutcomes :
        /\ loop' = AnswerStep(loop, o)
        /\ role_calls' = Append(role_calls,
               [role |-> "answerer", iteration |-> loop.iteration + 1,
                previous_answer |-> loop.previous_answer,
                criticism |-> loop.criticism, out |-> o])
    /\ UNCHANGED max_iterations
    /\ UNCHANGED nonLoopVars

\* One iteration's validator call and what follows it.
CallValidator ==
    /\ loop.pc = "validate"
    /\ \E o \in ValidatorOutcomes :
        /\ loop' = ValidateStep(loop, o, max_iterations)
        /\ role_calls' = Append(role_calls,
               [role |-> "validator", iteration |-> loop.iteration,
                selected_answer |-> loop.current_answer,
                reasoning |-> loop.reasoning, out |-> o])
    /\ UNCHANGED max_iterations
    /\ UNCHANGED nonLoopVars

NextLoop == CallAnswerer \/ CallValidator

(***************************************************************************)
(* AnswererAgent and ValidatorAgent                                        *)
(*                                                                         *)
(* A response text is the sequence of its lines; a line is the label it    *)
(* starts with (after line.strip()) and the stripped remainder, the value. *)
(* A line that starts with none of the labels has the label "".            *)
(***************************************************************************)

\* letters = ['A', 'B', 'C', 'D', 'E', 'F', 'G', 'H']
letters == <<"A", "B", "C", "D", "E", "F", "G", "H">>

\* The answer options of a question with n options (AnswerOption objects).
AnswerOptions(n) == [i \in 1..n |-> [content |-> ToString(i), isRight |-> FALSE]]

\* The valid questions: QuestionItem objects with 2..MaxOptions options.
QuestionItems ==
    {[content |-> "body", title |-> "title", type |-> "option",
      answers |-> AnswerOptions(n), questionNumber |-> "1"] : n \in 2..MaxOptions}

\* Reading attribute name of a QuestionItem: its value, or AttributeError.
GetAttr(obj, name) ==
    IF name \in DOMAIN obj THEN [kind |-> "ok", val |-> obj[name]]
    ELSE Raised("'QuestionItem' object has no attribute '" \o name \o "'")

\* The attribute AnswererAgent._build_prompt enumerates (line 59).
AnswererOptionsAttribute == "answer"

\* answer_list of AnswererAgent._build_prompt (lines 58-59): each item is the
\* letter and the option object itself, formatted into the line.
AnswererAnswerList(question) ==
    LET opts == GetAttr(question, AnswererOptionsAttribute)
    IN  IF opts.kind = "raise" THEN opts
        ELSE IF Len(opts.val) > Len(letters) THEN Raised("list index out of range")
        ELSE [kind |-> "ok",
              val |-> [i \in 1..Len(opts.val) |-> [letter |-> letters[i], text |-> opts.val[i]]]]

\* AnswererAgent._build_prompt (lines 40-89): the prompt, or the exception
\* raised while building it. The reconsider block is added when both
\* previous_answer and criticism are truthy.
AnswererPrompt(question, previous_answer, criticism) ==
    LET al == AnswererAnswerList(question)
    IN  IF al.kind = "raise" THEN al
        ELSE [kind |-> "ok",
              val |-> [content |-> question.content, title |-> question.title,
                       answer_list |-> al.val,
                       reconsider |->
                           IF Populated(previous_answer) /\ Populated(criticism)
                           THEN [previous_answer |-> previous_answer, criticism |-> criticism]
                           ELSE NoneVal,
                       format |-> <<"SELECTED:", "REASONING:">>]]

\* answer_list of ValidatorAgent._build_prompt (lines 65-66): each item is the
\* letter and the content of the option.
ValidatorAnswerList(question) ==
    LET opts == GetAttr(question, "answers")
    IN  IF opts.kind = "raise" THEN opts
        ELSE IF Len(opts.val) > Len(letters) THEN Raised("list index out of range")
        ELSE [kind |-> "ok",
              val |-> [i \in 1..Len(opts.val) |->
                          [letter |-> letters[i], text |-> opts.val[i].content]]]

\* ValidatorAgent._build_prompt (lines 47-99).
ValidatorPrompt(question, selected_answer, reasoning) ==
    LET al == ValidatorAnswerList(question)
    IN  IF al.kind = "raise" THEN al
        ELSE [kind |-> "ok",
              val |-> [content |-> question.content, title |-> question.title,
                       answer_list |-> al.val,
                       selected_answer |-> selected_answer, reasoning |-> reasoning,
                       format |-> <<"VERDICT:", "CRITICISM:">>]]

\* line.startswith(label)
StartsWith(line, label) == line.label = label

\* The lines a response to the answerer's prompt may consist of.
AnswererLines ==
    [label : {"SELECTED:"}, value : {"A", "C", ""}]
        \cup [label : {"REASONING:"}, value : {"r1", "r2", ""}]
        \cup [label : {""}, value : {"note"}]

\* The lines a response to the validator's prompt may consist of.
ValidatorLines ==
    [label : {"VERDICT:"}, value : {"AGREE", "agree", "DISAGREE", "maybe"}]
        \cup [label : {"CRITICISM:"}, value : {"c1", "c2", ""}]
        \cup [label : {""}, value : {"note"}]

\* The non-empty response texts generate_response may return to each agent.
AnswererTexts == UNION {[1..n -> AnswererLines] : n \in 1..MaxLines}
ValidatorTexts == UNION {[1..n -> ValidatorLines] : n \in 1..MaxLines}

\* One pass of "for line in lines" in AnswererAgent._parse_response (lines 108-113).
AnswererScanLine(acc, line) ==
    IF StartsWith(line, "SELECTED:") THEN [acc EXCEPT !.selected_answer = line.value]
    ELSE IF StartsWith(line, "REASONING:") THEN [acc EXCEPT !.reasoning = line.value]
    ELSE acc

RECURSIVE AnswererScan(_, _)
AnswererScan(lines, acc) ==
    IF lines = <<>> THEN acc
    ELSE AnswererScan(Tail(lines), AnswererScanLine(acc, Head(lines)))

\* AnswererAgent._parse_response (lines 91-120): the AnswererResponse, or the
\* ValueError raised.
WrongParseIgnoresMissingReasoning(response_text) ==
    LET acc == AnswererScan(response_text, [selected_answer |-> NoneVal, reasoning |-> NoneVal])
    IN  IF ~Populated(acc.selected_answer)
        THEN Raised("Could not extract SELECTED from response")
        ELSE [kind |-> "ok", selected_answer |-> acc.selected_answer,
              reasoning |-> acc.reasoning]
ParseAnswererResponse(response_text) ==
    LET acc == AnswererScan(response_text, [selected_answer |-> NoneVal, reasoning |-> NoneVal])
    IN  IF ~Populated(acc.selected_answer)
        THEN Raised("Could not extract SELECTED from response")
        ELSE IF ~Populated(acc.reasoning)
        THEN Raised("Could not extract REASONING from response")
        ELSE [kind |-> "ok", selected_answer |-> acc.selected_answer,
              reasoning |-> acc.reasoning]

\* str.upper() on the values of a VERDICT line.
Upper(v) ==
    CASE v = "agree" -> "AGREE"
      [] v = "maybe" -> "MAYBE"
      [] OTHER -> v

\* "if verdict_text in ["AGREE", "DISAGREE"]" (line 122).
WrongValidVerdictAnyText(verdict_text) == verdict_text # ""
ValidVerdict(verdict_text) == verdict_text \in {"AGREE", "DISAGREE"}

\* One pass of "for line in lines" in ValidatorAgent._parse_response (lines 118-125).
ValidatorScanLine(acc, line) ==
    IF StartsWith(line, "VERDICT:")
    THEN IF ValidVerdict(Upper(line.value)) THEN [acc EXCEPT !.verdict = Upper(line.value)]
         ELSE acc
    ELSE IF StartsWith(line, "CRITICISM:") THEN [acc EXCEPT !.criticism = line.value]
    ELSE acc

RECURSIVE ValidatorScan(_, _)
ValidatorScan(lines, acc) ==
    IF lines = <<>> THEN acc
    ELSE ValidatorScan(Tail(lines), ValidatorScanLine(acc, Head(lines)))

\* ValidatorResponse.__init__ (lines 15-27).
ValidatorResponse(verdict, criticism) ==
    IF verdict \notin {"AGREE", "DISAGREE"}
    THEN Raised("Invalid verdict: " \o verdict \o ". Must be AGREE or DISAGREE")
    ELSE [kind |-> "ok", verdict |-> verdict, criticism |-> criticism]

\* ValidatorAgent._parse_response (lines 101-134): the ValidatorResponse, or
\* the ValueError raised.
ParseValidatorResponse(response_text) ==
    LET acc == ValidatorScan(response_text, [verdict |-> NoneVal, criticism |-> NoneVal])
    IN  IF ~Populated(acc.verdict)
        THEN Raised("Could not extract VERDICT from response")
        ELSE ValidatorResponse(acc.verdict, acc.criticism)

\* A call of a role agent about to start: answer_question(question,
\* previous_answer, criticism), validate_answer(question, selected_answer,
\* reasoning), or _parse_response(response_text) on a response obtained for
\* question. The response text is <<>> as long as none was received.
AgentCall(role, method, question, previous_answer, criticism, selected_answer, reasoning, text) ==
    [role |-> role, method |-> method,
     pc |-> IF method = "_parse_response" THEN "parse" ELSE "build",
     question |-> question,
     previous_answer |-> previous_answer, criticism |-> criticism,
     selected_answer |-> selected_answer, reasoning |-> reasoning,
     prompt |-> NoneVal, response_text |-> text, result |-> NoneVal]

AgentCalls ==
    {AgentCall("answerer", "answer_question", q, p, c, NoneVal, NoneVal, <<>>) :
        q \in QuestionItems, p \in {NoneVal, "A"}, c \in {NoneVal, "", "c1"}}
    \cup {AgentCall("validator", "validate_answer", q, NoneVal, NoneVal, a, "r1", <<>>) :
        q \in QuestionItems, a \in {"A", "C"}}
    \cup {AgentCall("answerer", "_parse_response", q, NoneVal, NoneVal, NoneVal, NoneVal, t) :
        q \in QuestionItems, t \in AnswererTexts}
    \cup {AgentCall("validator", "_parse_response", q, NoneVal, NoneVal, "A", "r1", t) :
        q \in QuestionItems, t \in ValidatorTexts}

InitAgents ==
    /\ agent \in AgentCalls
    \* no generate_response, validate_question or process_questions call is in progress
    /\ max_retries = 1
    /\ base_retry_delay_ms = 0
    /\ retry_multiplier = 1
    /\ attempt = 0
    /\ last_exception = NoneVal
    /\ gpc = "idle"
    /\ gresult = NoneVal
    /\ api_calls = <<>>
    /\ sleeps = <<>>
    /\ max_iterations = 1
    /\ loop = IdleFrame
    /\ role_calls = <<>>
    /\ max_concurrent_workers = 1
    /\ semaphore = 1
    /\ cpc = [c \in Callers |-> "idle"]
    /\ questions = [c \in Callers |-> <<>>]
    /\ tasks = [c \in Callers |-> <<>>]
    /\ final_results = [c \in Callers |-> <<>>]
    /\ clock = 0
    /\ executor = IdleExecutor(1)
    /\ response = NoResponse

\* The step of an agent call that ends with outcome o of building its
\* prompt: on to the remote call, or out with the exception.
AfterBuild(call, o) ==
    IF o.kind = "raise" THEN [call EXCEPT !.pc = "raised", !.result = o]
    ELSE [call EXCEPT !.pc = "remote", !.prompt = o.val]

\* The step of an agent call that ends with outcome o of parsing the
\* response: the parsed response is returned, the ValueError re-raised.
AfterParse(call, o) ==
    IF o.kind = "raise" THEN [call EXCEPT !.pc = "raised", !.result = o]
    ELSE [call EXCEPT !.pc = "returned", !.result = o]

\* answer_question, line 145: prompt = self._build_prompt(...)
AnswererBuildPrompt ==
    /\ agent.role = "answerer"
    /\ agent.pc = "build"
    /\ agent' = AfterBuild(agent, AnswererPrompt(agent.question, agent.previous_answer,
                                                 agent.criticism))
    /\ UNCHANGED nonAgentVars

\* validate_answer, line 159: prompt = self._build_prompt(...)
ValidatorBuildPrompt ==
    /\ agent.role = "validator"
    /\ agent.pc = "build"
    /\ agent' = AfterBuild(agent, ValidatorPrompt(agent.question, agent.selected_answer,
                                                  agent.reasoning))
    /\ UNCHANGED nonAgentVars

\* response_text = self.gemini_client.generate_response(prompt): a non-empty
\* text, or the exception of the exhausted retries.
GenerateResponse ==
    /\ agent.pc = "remote"
    /\ \/ \E t \in (IF agent.role = "answerer" THEN AnswererTexts ELSE ValidatorTexts) :
            agent' = [agent EXCEPT !.pc = "parse", !.response_text = t]
       \/ agent' = [agent EXCEPT !.pc = "raised",
                                 !.result = Raised("Gemini API call failed after retries")]
    /\ UNCHANGED nonAgentVars

\* answer_question, lines 152-161 (AnswererAgent._parse_response).
AnswererParseResponse ==
    /\ agent.role = "answerer"
    /\ agent.pc = "parse"
    /\ agent' = AfterParse(agent, ParseAnswererResponse(agent.response_text))
    /\ UNCHANGED nonAgentVars

\* validate_answer, lines 166-175 (ValidatorAgent._parse_response).
ValidatorParseResponse ==
    /\ agent.role = "validator"
    /\ agent.pc = "parse"
    /\ agent' = AfterParse(agent, ParseValidatorResponse(agent.response_text))
    /\ UNCHANGED nonAgentVars

NextAgents ==
    \/ AnswererBuildPrompt
    \/ ValidatorBuildPrompt
    \/ GenerateResponse
    \/ AnswererParseResponse
    \/ ValidatorParseResponse

(***************************************************************************)
(* QuestionProcessor.process_questions / _process_single_question          *)
(*                                                                         *)
(* Every process_questions call turns its questions into coroutines and    *)
(* gathers them; each coroutine takes a permit of the shared semaphore,    *)
(* runs validate_question in the executor, builds its AnswerResult and     *)
(* gives the permit back. Elapsed time (processingTimeMs) is left out of   *)
(* these actions and modelled by the timed actions further down; the clock *)
(* is taken to be non-decreasing, so building an AnswerResult never fails. *)
(***************************************************************************)

\* questionNumber of the question at position i of a batch: all different,
\* or the same identifier repeated.
QuestionNumber(i, pattern) == IF pattern = "distinct" THEN ToString(i) ELSE "1"

\* The batches of n questions a caller may pass.
Batches(n) ==
    {[i \in 1..n |-> [questionNumber |-> QuestionNumber(i, p)]] : p \in {"distinct", "repeated"}}

\* AnswerResult(questionNumber, selectedAnswer, error, validationIterations)
AnswerResult(qn, sel, err, its) ==
    [kind |-> "AnswerResult", questionNumber |-> qn, selectedAnswer |-> sel,
     error |-> err, validationIterations |-> its]

\* The body of _process_single_question after validate_question finished
\* with v: the successful result (lines 103-116), or the error result of the
\* except branch (lines 118-134).
WrongTaskResultDropsError(q, v) ==
    IF v.kind = "ValidationResult"
    THEN AnswerResult(q.questionNumber, v.selected_answer, NoneVal, v.iterations)
    ELSE AnswerResult(q.questionNumber, NoneVal, NoneVal, 0)
WrongTaskResultCountsIteration(q, v) ==
    IF v.kind = "ValidationResult"
    THEN AnswerResult(q.questionNumber, v.selected_answer, NoneVal, v.iterations)
    ELSE AnswerResult(q.questionNumber, NoneVal, v.error, 1)
TaskResult(q, v) ==
    IF v.kind = "ValidationResult"
    THEN AnswerResult(q.questionNumber, v.selected_answer, NoneVal, v.iterations)
    ELSE AnswerResult(q.questionNumber, NoneVal, v.error, 0)

\* asyncio.gather(*tasks, return_exceptions=True): the coroutines' results
\* (or exceptions), in the order of the coroutines.
GatherResults(ts) == [i \in 1..Len(ts) |-> ts[i].ret]

\* Lines 48-66: exceptions among the gathered results become error results,
\* everything else is passed on, in order.
RECURSIVE DropErrorResults(_)
DropErrorResults(rs) ==
    IF rs = <<>> THEN <<>>
    ELSE IF rs[1].error # NoneVal THEN DropErrorResults(Tail(rs))
    ELSE <<rs[1]>> \o DropErrorResults(Tail(rs))
WrongFinalResultsLosesFailures(qs, results) == DropErrorResults(results)
FinalResults(qs, results) ==
    [i \in 1..Len(results) |->
        IF results[i].kind = "raise"
        THEN AnswerResult(qs[i].questionNumber, NoneVal, results[i].error, 0)
        ELSE results[i]]

\* asyncio.Semaphore.acquire returns at once when the value is positive.
WrongCanAcquireAtZero(value) == value >= 0
WrongCanAcquireNeedsSpare(value) == value > 1
CanAcquire(value) == value > 0

\* A coroutine gather has scheduled and that has not run yet. validation is
\* the outcome of its validate_question call, ret the value it returns.
NewTask == [pc |-> "created", validation |-> NoneVal, ret |-> NoneVal]

\* ValidateQuestionOutcomes for each max_iterations the validator behind the
\* QuestionProcessor may be configured with (evaluated once).
BatchOutcomes == [m \in 1..MaxBatchIterations |-> ValidateQuestionOutcomes(m)]

TotalQuestions == Len(questions["c1"]) + Len(questions["c2"])

TaskIds == {<<c, i>> \in Callers \X (1..MaxQuestions) : i <= Len(tasks[c])}

InitProc ==
    /\ max_concurrent_workers \in 1..MaxWorkers
    /\ semaphore = max_concurrent_workers
    /\ max_iterations \in 1..MaxBatchIterations
    /\ cpc = [c \in Callers |-> "idle"]
    /\ questions = [c \in Callers |-> <<>>]
    /\ tasks = [c \in Callers |-> <<>>]
    /\ final_results = [c \in Callers |-> <<>>]
    \* no generate_response and no separate validate_question call is in progress
    /\ loop = IdleFrame
    /\ role_calls = <<>>
    /\ max_retries = 1
    /\ base_retry_delay_ms = 0
    /\ retry_multiplier = 1
    /\ attempt = 0
    /\ last_exception = NoneVal
    /\ gpc = "idle"
    /\ gresult = NoneVal
    /\ api_calls = <<>>
    /\ sleeps = <<>>
    /\ agent = IdleCall
    /\ clock = 0
    /\ executor = IdleExecutor(1)
    /\ response = NoResponse

\* (variant: the call takes a permit of the semaphore before it looks at the batch)
WrongProcessQuestionsTakesPermit(c) ==
    /\ cpc[c] = "idle"
    /\ CanAcquire(semaphore)
    /\ \E n \in 0..(MaxQuestions - TotalQuestions) : \E qs \in Batches(n) :
        /\ questions' = [questions EXCEPT ![c] = qs]
        /\ tasks' = [tasks EXCEPT ![c] = [i \in 1..n |-> NewTask]]
        /\ cpc' = [cpc EXCEPT ![c] = IF n = 0 THEN "returned" ELSE "gathering"]
        /\ semaphore' = IF n = 0 THEN semaphore - 1 ELSE semaphore
    /\ UNCHANGED <<max_concurrent_workers, final_results, max_iterations>>
    /\ UNCHANGED nonProcVars

\* process_questions(questions) up to "await asyncio.gather(...)". With no
\* question gather has nothing to wait for and the call returns [] at once.
ProcessQuestions(c) ==
    /\ cpc[c] = "idle"
    /\ \E n \in 0..(MaxQuestions - TotalQuestions) : \E qs \in Batches(n) :
        /\ questions' = [questions EXCEPT ![c] = qs]
        /\ tasks' = [tasks EXCEPT ![c] = [i \in 1..n |-> NewTask]]
        /\ cpc' = [cpc EXCEPT ![c] = IF n = 0 THEN "returned" ELSE "gathering"]
    /\ UNCHANGED <<max_concurrent_workers, semaphore, final_results, max_iterations>>
    /\ UNCHANGED nonProcVars

\* The coroutines of one gather start in the order they were given.
NextToStart(c, i) ==
    /\ cpc[c] = "gathering"
    /\ i \in 1..Len(tasks[c])
    /\ tasks[c][i].pc = "created"
    /\ \A j \in 1..(i - 1) : tasks[c][j].pc # "created"

\* "async with self.semaphore" finds a free permit: the coroutine takes it
\* and hands validate_question to the executor (lines 83-97).
StartTaskAcquires(c, i) ==
    /\ NextToStart(c, i)
    /\ CanAcquire(semaphore)
    /\ semaphore' = semaphore - 1
    /\ tasks' = [tasks EXCEPT ![c][i].pc = "validating"]
    /\ UNCHANGED <<max_concurrent_workers, cpc, questions, final_results, max_iterations>>
    /\ UNCHANGED nonProcVars

\* "async with self.semaphore" finds no free permit: the coroutine waits.
StartTaskWaits(c, i) ==
    /\ NextToStart(c, i)
    /\ ~CanAcquire(semaphore)
    /\ tasks' = [tasks EXCEPT ![c][i].pc = "waiting"]
    /\ UNCHANGED <<max_concurrent_workers, semaphore, cpc, questions, final_results,
                   max_iterations>>
    /\ UNCHANGED nonProcVars

\* A waiting coroutine gets a released permit and hands validate_question
\* to the executor.
AcquireAfterWait(c, i) ==
    /\ i \in 1..Len(tasks[c])
    /\ tasks[c][i].pc = "waiting"
    /\ CanAcquire(semaphore)
    /\ semaphore' = semaphore - 1
    /\ tasks' = [tasks EXCEPT ![c][i].pc = "validating"]
    /\ UNCHANGED <<max_concurrent_workers, cpc, questions, final_results, max_iterations>>
    /\ UNCHANGED nonProcVars

\* self.validator.validate_question(question) ends in its executor thread,
\* with a ValidationResult or an exception.
FinishValidation(c, i) ==
    /\ i \in 1..Len(tasks[c])
    /\ tasks[c][i].pc = "validating"
    /\ \E v \in BatchOutcomes[max_iterations] :
        tasks' = [tasks EXCEPT ![c][i].pc = "validated", ![c][i].validation = v]
    /\ UNCHANGED <<max_concurrent_workers, semaphore, cpc, questions, final_results,
                   max_iterations>>
    /\ UNCHANGED nonProcVars

\* The coroutine resumes with the outcome of validate_question, builds its
\* AnswerResult, leaves "async with" (the permit is released) and returns.
\* (variant: the permit is given back only when validate_question returned)
WrongCompleteTaskKeepsPermitOnFailure(c, i) ==
    /\ i \in 1..Len(tasks[c])
    /\ tasks[c][i].pc = "validated"
    /\ tasks' = [tasks EXCEPT ![c][i].pc = "done",
                              ![c][i].ret = TaskResult(questions[c][i], tasks[c][i].validation)]
    /\ semaphore' = IF tasks[c][i].validation.kind = "raise" THEN semaphore
                    ELSE semaphore + 1
    /\ UNCHANGED <<max_concurrent_workers, cpc, questions, final_results, max_iterations>>
    /\ UNCHANGED nonProcVars
CompleteTask(c, i) ==
    /\ i \in 1..Len(tasks[c])
    /\ tasks[c][i].pc = "validated"
    /\ tasks' = [tasks EXCEPT ![c][i].pc = "done",
                              ![c][i].ret = TaskResult(questions[c][i], tasks[c][i].validation)]
    /\ semaphore' = semaphore + 1
    /\ UNCHANGED <<max_concurrent_workers, cpc, questions, final_results, max_iterations>>
    /\ UNCHANGED nonProcVars

\* gather is complete once every coroutine returned; process_questions
\* converts the results and returns final_results (lines 48-69).
GatherReturns(c) ==
    /\ cpc[c] = "gathering"
    /\ \A i \in 1..Len(tasks[c]) : tasks[c][i].pc = "done"
    /\ final_results' = [final_results EXCEPT
                            ![c] = FinalResults(questions[c], GatherResults(tasks[c]))]
    /\ cpc' = [cpc EXCEPT ![c] = "returned"]
    /\ UNCHANGED <<max_concurrent_workers, semaphore, questions, tasks, max_iterations>>
    /\ UNCHANGED nonProcVars

NextProc ==
    \E c \in Callers :
        \/ ProcessQuestions(c)
        \/ GatherReturns(c)
        \/ \E i \in 1..MaxQuestions :
            \/ StartTaskAcquires(c, i)
            \/ StartTaskWaits(c, i)
            \/ AcquireAfterWait(c, i)
            \/ FinishValidation(c, i)
            \/ CompleteTask(c, i)

(***************************************************************************)
(* The QuestionProcessor as the server wires it (server.py, lines 65-87):  *)
(* a MultiAgentValidator over the repository's AnswererAgent and           *)
(* ValidatorAgent, which share one GeminiClient.                           *)
(***************************************************************************)

\* An outcome of a role call together with what happened to its remote call:
\* "none" when generate_response was not reached.
RoleCallLog(role, remote, out) == [role |-> role, remote |-> remote, out |-> out]

\* AnswererAgent.answer_question(question, previous_answer, criticism): every
\* outcome it can have.
AnswerQuestionOutcomes(question, previous_answer, criticism) ==
    LET p == AnswererPrompt(question, previous_answer, criticism)
    IN  IF p.kind = "raise" THEN {RoleCallLog("answerer", "none", p)}
        ELSE {RoleCallLog("answerer", "ok", ParseAnswererResponse(t)) : t \in AnswererTexts}
             \cup {RoleCallLog("answerer", "failed",
                               Raised("Gemini API call failed after retries"))}

\* ValidatorAgent.validate_answer(question, selected_answer, reasoning): every
\* outcome it can have.
ValidateAnswerOutcomes(question, selected_answer, reasoning) ==
    LET p == ValidatorPrompt(question, selected_answer, reasoning)
    IN  IF p.kind = "raise" THEN {RoleCallLog("validator", "none", p)}
        ELSE {RoleCallLog("validator", "ok", ParseValidatorResponse(t)) : t \in ValidatorTexts}
             \cup {RoleCallLog("validator", "failed",
                               Raised("Gemini API call failed after retries"))}

\* Every run validate_question(question) can have from frame ls on, calls
\* being the role calls made so far: its outcome and all its role calls.
RECURSIVE WiredLoopOutcomes(_, _, _, _)
WiredLoopOutcomes(ls, calls, question, maxit) ==
    IF ls.pc \in {"returned", "raised"} THEN {[validation |-> ls.result, calls |-> calls]}
    ELSE IF ls.pc = "answer"
    THEN UNION {WiredLoopOutcomes(AnswerStep(ls, c.out), Append(calls, c), question, maxit) :
                    c \in AnswerQuestionOutcomes(question, ls.previous_answer, ls.criticism)}
    ELSE UNION {WiredLoopOutcomes(ValidateStep(ls, c.out, maxit), Append(calls, c),
                                  question, maxit) :
                    c \in ValidateAnswerOutcomes(question, ls.current_answer, ls.reasoning)}

\* Every run of self.validator.validate_question(question) in the wired program.
WiredValidateQuestion(question, maxit) ==
    WiredLoopOutcomes(LoopStart(maxit), <<>>, question, maxit)

\* The batches of n valid questions: questionNumber "1", "2", ..., every
\* question with the same number of options.
ValidBatches(n) ==
    {[i \in 1..n |-> [q EXCEPT !.questionNumber = ToString(i)]] : q \in QuestionItems}

InitWired ==
    /\ max_concurrent_workers \in 1..MaxWorkers
    /\ semaphore = max_concurrent_workers
    /\ max_iterations \in 1..MaxBatchIterations
    /\ cpc = [c \in Callers |-> "idle"]
    /\ questions = [c \in Callers |-> <<>>]
    /\ tasks = [c \in Callers |-> <<>>]
    /\ final_results = [c \in Callers |-> <<>>]
    \* no separate generate_response, validate_question or agent call is in progress
    /\ loop = IdleFrame
    /\ role_calls = <<>>
    /\ max_retries = 1
    /\ base_retry_delay_ms = 0
    /\ retry_multiplier = 1
    /\ attempt = 0
    /\ last_exception = NoneVal
    /\ gpc = "idle"
    /\ gresult = NoneVal
    /\ api_calls = <<>>
    /\ sleeps = <<>>
    /\ agent = IdleCall
    /\ clock = 0
    /\ executor = IdleExecutor(1)
    /\ response = NoResponse

\* process_questions(questions) of caller "c1" with 1..MaxBatch valid
\* questions, up to "await asyncio.gather(...)".
ProcessValidQuestions ==
    /\ cpc["c1"] = "idle"
    /\ \E n \in 1..MaxBatch : \E qs \in ValidBatches(n) :
        /\ questions' = [questions EXCEPT !["c1"] = qs]
        /\ tasks' = [tasks EXCEPT !["c1"] = [i \in 1..n |-> NewTask]]
        /\ cpc' = [cpc EXCEPT !["c1"] = "gathering"]
    /\ UNCHANGED <<max_concurrent_workers, semaphore, final_results, max_iterations>>
    /\ UNCHANGED nonProcVars

\* self.validator.validate_question(question) ends in its executor thread,
\* the validator being the one the server builds.
FinishWiredValidation(i) ==
    /\ i \in 1..Len(tasks["c1"])
    /\ tasks["c1"][i].pc = "validating"
    /\ \E run \in WiredValidateQuestion(questions["c1"][i], max_iterations) :
        tasks' = [tasks EXCEPT !["c1"][i] =
                     [pc |-> "validated", validation |-> run.validation,
                      ret |-> NoneVal, calls |-> run.calls]]
    /\ UNCHANGED <<max_concurrent_workers, semaphore, cpc, questions, final_results,
                   max_iterations>>
    /\ UNCHANGED nonProcVars

NextWired ==
    \/ ProcessValidQuestions
    \/ GatherReturns("c1")
    \/ \E i \in 1..MaxBatch :
        \/ StartTaskAcquires("c1", i)
        \/ StartTaskWaits("c1", i)
        \/ AcquireAfterWait("c1", i)
        \/ FinishWiredValidation(i)
        \/ CompleteTask("c1", i)

(***************************************************************************)
(* One question followed through _process_single_question with the steps   *)
(* of its validate_question call visible: process_questions([q]) of caller *)
(* "c1", the answerer and validator calls of the loop, the result.         *)
(***************************************************************************)
InitQuestion ==
    /\ max_concurrent_workers \in 1..MaxWorkers
    /\ semaphore = max_concurrent_workers
    /\ max_iterations \in 1..MaxIterations
    /\ cpc = [c \in Callers |-> "idle"]
    /\ questions = [c \in Callers |-> <<>>]
    /\ tasks = [c \in Callers |-> <<>>]
    /\ final_results = [c \in Callers |-> <<>>]
    /\ loop = IdleFrame
    /\ role_calls = <<>>
    \* no separate generate_response call is in progress
    /\ max_retries = 1
    /\ base_retry_delay_ms = 0
    /\ retry_multiplier = 1
    /\ attempt = 0
    /\ last_exception = NoneVal
    /\ gpc = "idle"
    /\ gresult = NoneVal
    /\ api_calls = <<>>
    /\ sleeps = <<>>
    /\ agent = IdleCall
    /\ clock = 0
    /\ executor = IdleExecutor(1)
    /\ response = NoResponse

\* process_questions([q]) up to "await asyncio.gather(...)".
ProcessOneQuestion ==
    /\ cpc["c1"] = "idle"
    /\ \E qs \in Batches(1) :
        /\ questions' = [questions EXCEPT !["c1"] = qs]
        /\ tasks' = [tasks EXCEPT !["c1"] = <<NewTask>>]
        /\ cpc' = [cpc EXCEPT !["c1"] = "gathering"]
    /\ UNCHANGED <<max_concurrent_workers, semaphore, final_results, max_iterations>>
    /\ UNCHANGED nonProcVars

\* "async with self.semaphore" and run_in_executor: validate_question begins
\* in an executor thread (lines 83-97; validate_question lines 78-82).
BeginValidation ==
    /\ NextToStart("c1", 1)
    /\ CanAcquire(semaphore)
    /\ semaphore' = semaphore - 1
    /\ tasks' = [tasks EXCEPT !["c1"][1].pc = "validating"]
    /\ loop' = LoopStart(max_iterations)
    /\ role_calls' = <<>>
    /\ UNCHANGED <<max_concurrent_workers, cpc, questions, final_results, max_iterations>>
    /\ UNCHANGED <<clientVars, agentVars, extVars>>

\* validate_question has returned or raised: the awaiting coroutine gets
\* the outcome.
EndValidation ==
    /\ cpc["c1"] = "gathering"
    /\ tasks["c1"][1].pc = "validating"
    /\ loop.pc \in {"returned", "raised"}
    /\ tasks' = [tasks EXCEPT !["c1"][1].pc = "validated",
                              !["c1"][1].validation = loop.result]
    /\ UNCHANGED <<max_concurrent_workers, semaphore, cpc, questions, final_results,
                   max_iterations>>
    /\ UNCHANGED nonProcVars

NextQuestion ==
    \/ ProcessOneQuestion
    \/ BeginValidation
    \/ CallAnswerer
    \/ CallValidator
    \/ EndValidation
    \/ CompleteTask("c1", 1)
    \/ GatherReturns("c1")

(***************************************************************************)
(* _process_single_question with its clock. time.time() is read when the   *)
(* permit has been taken (line 88) and again when the outcome of           *)
(* validate_question has arrived (lines 100 and 120); the difference, in   *)
(* whole milliseconds, is the processingTimeMs of the result. The clock is *)
(* taken to be non-decreasing, so processingTimeMs is never negative and   *)
(* building an AnswerResult never fails.                                   *)
(* Besides start_time every coroutine carries a history of clock readings: *)
(* arrived (it reached "async with"), acquired (it got the permit),        *)
(* completed (it had the outcome of validate_question and built its        *)
(* result).                                                                *)
(***************************************************************************)

\* int((time.time() - start_time) * 1000), both readings in clock ticks.
WrongProcessingTimeMsSinceEpoch(start_time, now) == now \div TicksPerMs
ProcessingTimeMs(start_time, now) == (now - start_time) \div TicksPerMs

\* An AnswerResult together with its processingTimeMs.
TimedAnswerResult(r, ms) == r @@ [processingTimeMs |-> ms]

\* Lines 99-116 and 118-134: the result of a coroutine whose clock started
\* at start_time, built at time now.
TimedTaskResult(q, v, start_time, now) ==
    TimedAnswerResult(TaskResult(q, v), ProcessingTimeMs(start_time, now))

\* Lines 48-66 with processingTimeMs: the error result made for an exception
\* among the gathered results carries processingTimeMs=0.
TimedFinalResults(qs, results) ==
    [i \in 1..Len(results) |->
        IF results[i].kind = "raise"
        THEN TimedAnswerResult(FinalResults(qs, results)[i], 0)
        ELSE results[i]]

NewTimedTask ==
    [pc |-> "created", validation |-> NoneVal, ret |-> NoneVal, start_time |-> NoneVal,
     arrived |-> NoneVal, acquired |-> NoneVal, completed |-> NoneVal]

\* Outcomes of validate_question the timed coroutines end with: an agreed
\* answer of the first iteration and a failed role call.
TimedOutcomes ==
    {ValidationResult("A", 1, TRUE), Raised("Gemini API call failed after retries")}

InitTimed ==
    /\ max_concurrent_workers \in 1..MaxWorkers
    /\ semaphore = max_concurrent_workers
    /\ max_iterations = 1
    /\ cpc = [c \in Callers |-> "idle"]
    /\ questions = [c \in Callers |-> <<>>]
    /\ tasks = [c \in Callers |-> <<>>]
    /\ final_results = [c \in Callers |-> <<>>]
    /\ clock = 0
    \* no separate generate_response, validate_question or agent call is in progress
    /\ loop = IdleFrame
    /\ role_calls = <<>>
    /\ max_retries = 1
    /\ base_retry_delay_ms = 0
    /\ retry_multiplier = 1
    /\ attempt = 0
    /\ last_exception = NoneVal
    /\ gpc = "idle"
    /\ gresult = NoneVal
    /\ api_calls = <<>>
    /\ sleeps = <<>>
    /\ agent = IdleCall
    /\ executor = IdleExecutor(1)
    /\ response = NoResponse

\* Time passes.
Tick ==
    /\ clock < MaxClock
    /\ clock' = clock + 1
    /\ UNCHANGED <<clientVars, loopVars, procVars, agentVars, executor, response>>

\* process_questions(questions) of caller "c1", up to "await asyncio.gather(...)".
TimedProcessQuestions ==
    /\ cpc["c1"] = "idle"
    /\ \E n \in 1..MaxQuestions : \E qs \in Batches(n) :
        /\ questions' = [questions EXCEPT !["c1"] = qs]
        /\ tasks' = [tasks EXCEPT !["c1"] = [i \in 1..n |-> NewTimedTask]]
        /\ cpc' = [cpc EXCEPT !["c1"] = "gathering"]
    /\ UNCHANGED <<max_concurrent_workers, semaphore, final_results, max_iterations>>
    /\ UNCHANGED nonProcVars

\* Lines 83-97 with a free permit: the coroutine takes it, reads the clock
\* into start_time and hands validate_question to the executor.
TimedStartAcquires(i) ==
    /\ NextToStart("c1", i)
    /\ CanAcquire(semaphore)
    /\ semaphore' = semaphore - 1
    /\ tasks' = [tasks EXCEPT !["c1"][i].pc = "validating",
                              !["c1"][i].start_time = clock,
                              !["c1"][i].arrived = clock,
                              !["c1"][i].acquired = clock]
    /\ UNCHANGED <<max_concurrent_workers, cpc, questions, final_results, max_iterations>>
    /\ UNCHANGED nonProcVars

\* Line 83 without a free permit: the coroutine waits, no clock is read.
TimedStartWaits(i) ==
    /\ NextToStart("c1", i)
    /\ ~CanAcquire(semaphore)
    /\ tasks' = [tasks EXCEPT !["c1"][i].pc = "waiting", !["c1"][i].arrived = clock]
    /\ UNCHANGED <<max_concurrent_workers, semaphore, cpc, questions, final_results,
                   max_iterations>>
    /\ UNCHANGED nonProcVars

\* A waiting coroutine gets a released permit and goes on with lines 84-97.
TimedAcquireAfterWait(i) ==
    /\ i \in 1..Len(tasks["c1"])
    /\ tasks["c1"][i].pc = "waiting"
    /\ CanAcquire(semaphore)
    /\ semaphore' = semaphore - 1
    /\ tasks' = [tasks EXCEPT !["c1"][i].pc = "validating",
                              !["c1"][i].start_time = clock,
                              !["c1"][i].acquired = clock]
    /\ UNCHANGED <<max_concurrent_workers, cpc, questions, final_results, max_iterations>>
    /\ UNCHANGED nonProcVars

\* validate_question ends in its executor thread.
TimedFinishValidation(i) ==
    /\ i \in 1..Len(tasks["c1"])
    /\ tasks["c1"][i].pc = "validating"
    /\ \E v \in TimedOutcomes :
        tasks' = [tasks EXCEPT !["c1"][i].pc = "validated", !["c1"][i].validation = v]
    /\ UNCHANGED <<max_concurrent_workers, semaphore, cpc, questions, final_results,
                   max_iterations>>
    /\ UNCHANGED nonProcVars

\* The coroutine resumes with the outcome, reads the clock again, builds its
\* AnswerResult, leaves "async with" and returns (lines 99-116, 118-134).
TimedCompleteTask(i) ==
    /\ i \in 1..Len(tasks["c1"])
    /\ tasks["c1"][i].pc = "validated"
    /\ tasks' = [tasks EXCEPT !["c1"][i].pc = "done",
                              !["c1"][i].ret = TimedTaskResult(questions["c1"][i],
                                                               tasks["c1"][i].validation,
                                                               tasks["c1"][i].start_time, clock),
                              !["c1"][i].completed = clock]
    /\ semaphore' = semaphore + 1
    /\ UNCHANGED <<max_concurrent_workers, cpc, questions, final_results, max_iterations>>
    /\ UNCHANGED nonProcVars

\* gather is complete; process_questions converts and returns (lines 48-69).
TimedGatherReturns ==
    /\ cpc["c1"] = "gathering"
    /\ \A i \in 1..Len(tasks["c1"]) : tasks["c1"][i].pc = "done"
    /\ final_results' = [final_results EXCEPT
                            !["c1"] = TimedFinalResults(questions["c1"],
                                                        GatherResults(tasks["c1"]))]
    /\ cpc' = [cpc EXCEPT !["c1"] = "returned"]
    /\ UNCHANGED <<max_concurrent_workers, semaphore, questions, tasks, max_iterations>>
    /\ UNCHANGED nonProcVars

NextTimed ==
    \/ Tick
    \/ TimedProcessQuestions
    \/ TimedGatherReturns
    \/ \E i \in 1..MaxQuestions :
        \/ TimedStartAcquires(i)
        \/ TimedStartWaits(i)
        \/ TimedAcquireAfterWait(i)
        \/ TimedFinishValidation(i)
        \/ TimedCompleteTask(i)

(***************************************************************************)
(* _process_single_question with the executor behind run_in_executor.      *)
(* loop.run_in_executor(None, f, question) submits a work item to the      *)
(* default ThreadPoolExecutor: a thread takes it at once while fewer than  *)
(* max_workers threads are busy, otherwise the item stays in the           *)
(* executor's queue until a thread has finished the validate_question call *)
(* it is running.                                                          *)
(***************************************************************************)

\* ThreadPoolExecutor.submit of the work item of coroutine i.
Submit(ex, i) ==
    IF ex.busy < ex.max_workers
    THEN [ex EXCEPT !.busy = ex.busy + 1]
    ELSE [ex EXCEPT !.queue = Append(ex.queue, i)]

\* Where coroutine i is after run_in_executor: its validate_question call
\* runs in a thread, or its work item is queued.
AfterSubmit(ex) == IF ex.busy < ex.max_workers THEN "validating" ELSE "queued"

\* A thread has finished its work item: it takes the next one of the queue
\* or becomes idle.
ThreadFree(ex) ==
    IF ex.queue = <<>>
    THEN [ex EXCEPT !.busy = ex.busy - 1]
    ELSE [ex EXCEPT !.queue = Tail(ex.queue)]

InitExecutor ==
    /\ max_concurrent_workers \in 1..MaxGate
    /\ semaphore = max_concurrent_workers
    /\ max_iterations = 1
    /\ cpc = [c \in Callers |-> "idle"]
    /\ questions = [c \in Callers |-> <<>>]
    /\ tasks = [c \in Callers |-> <<>>]
    /\ final_results = [c \in Callers |-> <<>>]
    /\ clock = 0
    /\ executor \in {IdleExecutor(cpus) : cpus \in 1..MaxCpus}
    \* no separate generate_response, validate_question or agent call is in progress
    /\ loop = IdleFrame
    /\ role_calls = <<>>
    /\ max_retries = 1
    /\ base_retry_delay_ms = 0
    /\ retry_multiplier = 1
    /\ attempt = 0
    /\ last_exception = NoneVal
    /\ gpc = "idle"
    /\ gresult = NoneVal
    /\ api_calls = <<>>
    /\ sleeps = <<>>
    /\ agent = IdleCall
    /\ response = NoResponse

\* process_questions(questions) of caller "c1", up to "await asyncio.gather(...)".
PoolProcessQuestions ==
    /\ cpc["c1"] = "idle"
    /\ \E n \in 1..MaxGate :
        /\ questions' = [questions EXCEPT !["c1"] = [i \in 1..n |-> [questionNumber |-> ToString(i)]]]
        /\ tasks' = [tasks EXCEPT !["c1"] = [i \in 1..n |-> NewTask]]
        /\ cpc' = [cpc EXCEPT !["c1"] = "gathering"]
    /\ UNCHANGED <<max_concurrent_workers, semaphore, final_results, max_iterations>>
    /\ UNCHANGED nonProcVars

\* Lines 83-97 with a free permit: the coroutine takes it and submits
\* validate_question to the executor.
PoolStartAcquires(i) ==
    /\ NextToStart("c1", i)
    /\ CanAcquire(semaphore)
    /\ semaphore' = semaphore - 1
    /\ tasks' = [tasks EXCEPT !["c1"][i].pc = AfterSubmit(executor)]
    /\ executor' = Submit(executor, i)
    /\ UNCHANGED <<max_concurrent_workers, cpc, questions, final_results, max_iterations>>
    /\ UNCHANGED <<clientVars, role_calls, loop, agentVars, clock, response>>

\* A waiting coroutine gets a released permit and submits validate_question.
PoolAcquireAfterWait(i) ==
    /\ i \in 1..Len(tasks["c1"])
    /\ tasks["c1"][i].pc = "waiting"
    /\ CanAcquire(semaphore)
    /\ semaphore' = semaphore - 1
    /\ tasks' = [tasks EXCEPT !["c1"][i].pc = AfterSubmit(executor)]
    /\ executor' = Submit(executor, i)
    /\ UNCHANGED <<max_concurrent_workers, cpc, questions, final_results, max_iterations>>
    /\ UNCHANGED <<clientVars, role_calls, loop, agentVars, clock, response>>

\* validate_question of coroutine i ends in its thread; the thread goes on
\* with the work item at the head of the queue, if there is one.
PoolFinishValidation(i) ==
    /\ i \in 1..Len(tasks["c1"])
    /\ tasks["c1"][i].pc = "validating"
    /\ \E v \in TimedOutcomes :
        tasks' = [tasks EXCEPT !["c1"] =
                     [j \in 1..Len(tasks["c1"]) |->
                         IF j = i
                         THEN [tasks["c1"][j] EXCEPT !.pc = "validated", !.validation = v]
                         ELSE IF executor.queue # <<>> /\ j = Head(executor.queue)
                         THEN [tasks["c1"][j] EXCEPT !.pc = "validating"]
                         ELSE tasks["c1"][j]]]
    /\ executor' = ThreadFree(executor)
    /\ UNCHANGED <<max_concurrent_workers, semaphore, cpc, questions, final_results,
                   max_iterations>>
    /\ UNCHANGED <<clientVars, role_calls, loop, agentVars, clock, response>>

NextExecutor ==
    \/ PoolProcessQuestions
    \/ GatherReturns("c1")
    \/ \E i \in 1..MaxGate :
        \/ PoolStartAcquires(i)
        \/ StartTaskWaits("c1", i)
        \/ PoolAcquireAfterWait(i)
        \/ PoolFinishValidation(i)
        \/ CompleteTask("c1", i)

(***************************************************************************)
(* The questions of one batch with the frames of their validate_question   *)
(* calls: every call runs in its own executor thread and has its own       *)
(* locals; the MultiAgentValidator and its agents are shared and keep no   *)
(* field that a call writes. Every coroutine carries the frame of its call *)
(* and, as history, the role calls made for it.                            *)
(***************************************************************************)

\* The frame the validate_question call of coroutine i works on: iteration,
\* previous_answer, criticism, current_answer and reasoning are locals.
WrongUnitFrameShared(ts, i) == ts[1].frame
UnitFrame(ts, i) == ts[i].frame

\* Outcomes of the role calls made for these questions: two different
\* answers, agreement, disagreement with a criticism, a failure of each role.
UnitAnswererOutcomes ==
    {[kind |-> "ok", selected_answer |-> "A", reasoning |-> "r1"],
     [kind |-> "ok", selected_answer |-> "B", reasoning |-> "r2"],
     Raised("Could not extract label from response")}
UnitValidatorOutcomes ==
    {[kind |-> "ok", verdict |-> "AGREE", criticism |-> NoneVal],
     [kind |-> "ok", verdict |-> "DISAGREE", criticism |-> "c1"],
     Raised("Gemini API call failed after retries")}

NewUnitTask ==
    [pc |-> "created", validation |-> NoneVal, ret |-> NoneVal,
     frame |-> IdleFrame, calls |-> <<>>]

InitUnits ==
    /\ max_concurrent_workers \in 1..MaxWorkers
    /\ semaphore = max_concurrent_workers
    /\ max_iterations \in 1..MaxBatchIterations
    /\ cpc = [c \in Callers |-> "idle"]
    /\ questions = [c \in Callers |-> <<>>]
    /\ tasks = [c \in Callers |-> <<>>]
    /\ final_results = [c \in Callers |-> <<>>]
    /\ clock = 0
    /\ executor = IdleExecutor(1)
    \* no separate generate_response, validate_question or agent call is in progress
    /\ loop = IdleFrame
    /\ role_calls = <<>>
    /\ max_retries = 1
    /\ base_retry_delay_ms = 0
    /\ retry_multiplier = 1
    /\ attempt = 0
    /\ last_exception = NoneVal
    /\ gpc = "idle"
    /\ gresult = NoneVal
    /\ api_calls = <<>>
    /\ sleeps = <<>>
    /\ agent = IdleCall
    /\ response = NoResponse

\* process_questions(questions) of caller "c1" with a batch of two
\* questions, up to "await asyncio.gather(...)".
UnitsProcessQuestions ==
    /\ cpc["c1"] = "idle"
    /\ \E qs \in Batches(2) :
        /\ questions' = [questions EXCEPT !["c1"] = qs]
        /\ tasks' = [tasks EXCEPT !["c1"] = [i \in 1..2 |-> NewUnitTask]]
        /\ cpc' = [cpc EXCEPT !["c1"] = "gathering"]
    /\ UNCHANGED <<max_concurrent_workers, semaphore, final_results, max_iterations>>
    /\ UNCHANGED nonProcVars

\* Lines 83-97 with a free permit: the coroutine takes it and
\* validate_question begins in an executor thread (its lines 78-82).
UnitStartAcquires(i) ==
    /\ NextToStart("c1", i)
    /\ CanAcquire(semaphore)
    /\ semaphore' = semaphore - 1
    /\ tasks' = [tasks EXCEPT !["c1"][i].pc = "validating",
                              !["c1"][i].frame = LoopStart(max_iterations)]
    /\ UNCHANGED <<max_concurrent_workers, cpc, questions, final_results, max_iterations>>
    /\ UNCHANGED nonProcVars

\* A waiting coroutine gets a released permit; validate_question begins.
UnitAcquireAfterWait(i) ==
    /\ i \in 1..Len(tasks["c1"])
    /\ tasks["c1"][i].pc = "waiting"
    /\ CanAcquire(semaphore)
    /\ semaphore' = semaphore - 1
    /\ tasks' = [tasks EXCEPT !["c1"][i].pc = "validating",
                              !["c1"][i].frame = LoopStart(max_iterations)]
    /\ UNCHANGED <<max_concurrent_workers, cpc, questions, final_results, max_iterations>>
    /\ UNCHANGED nonProcVars

\* The answerer call of one iteration of the validate_question call of
\* coroutine i.
UnitCallAnswerer(i) ==
    /\ i \in 1..Len(tasks["c1"])
    /\ tasks["c1"][i].pc = "validating"
    /\ LET ls == UnitFrame(tasks["c1"], i)
       IN  /\ ls.pc = "answer"
           /\ \E o \in UnitAnswererOutcomes :
               tasks' = [tasks EXCEPT
                   !["c1"][i].frame = AnswerStep(ls, o),
                   !["c1"][i].calls = Append(@,
                       [role |-> "answerer", iteration |-> ls.iteration + 1,
                        previous_answer |-> ls.previous_answer,
                        criticism |-> ls.criticism, out |-> o])]
    /\ UNCHANGED <<max_concurrent_workers, semaphore, cpc, questions, final_results,
                   max_iterations>>
    /\ UNCHANGED nonProcVars

\* The validator call of that iteration and what follows it.
UnitCallValidator(i) ==
    /\ i \in 1..Len(tasks["c1"])
    /\ tasks["c1"][i].pc = "validating"
    /\ LET ls == UnitFrame(tasks["c1"], i)
       IN  /\ ls.pc = "validate"
           /\ \E o \in UnitValidatorOutcomes :
               tasks' = [tasks EXCEPT
                   !["c1"][i].frame = ValidateStep(ls, o, max_iterations),
                   !["c1"][i].calls = Append(@,
                       [role |-> "validator", iteration |-> ls.iteration,
                        selected_answer |-> ls.current_answer,
                        reasoning |-> ls.reasoning, out |-> o])]
    /\ UNCHANGED <<max_concurrent_workers, semaphore, cpc, questions, final_results,
                   max_iterations>>
    /\ UNCHANGED nonProcVars

\* validate_question of coroutine i has returned or raised: the awaiting
\* coroutine gets the outcome.
UnitEndValidation(i) ==
    /\ i \in 1..Len(tasks["c1"])
    /\ tasks["c1"][i].pc = "validating"
    /\ UnitFrame(tasks["c1"], i).pc \in {"returned", "raised"}
    /\ tasks' = [tasks EXCEPT !["c1"][i].pc = "validated",
                              !["c1"][i].validation = UnitFrame(tasks["c1"], i).result]
    /\ UNCHANGED <<max_concurrent_workers, semaphore, cpc, questions, final_results,
                   max_iterations>>
    /\ UNCHANGED nonProcVars

NextUnits ==
    \/ UnitsProcessQuestions
    \/ GatherReturns("c1")
    \/ \E i \in 1..2 :
        \/ UnitStartAcquires(i)
        \/ StartTaskWaits("c1", i)
        \/ UnitAcquireAfterWait(i)
        \/ UnitCallAnswerer(i)
        \/ UnitCallValidator(i)
        \/ UnitEndValidation(i)
        \/ CompleteTask("c1", i)

(***************************************************************************)
(* The answer_questions endpoint (server.py, lines 153-260): it passes the *)
(* questions of the request to process_questions, looks up the result of   *)
(* every question by its questionNumber and marks the selected option.     *)
(***************************************************************************)

\* The AnswerOption list of a question with n options, option flagged
\* already carrying isRight = TRUE (flagged = 0: none).
FlaggedOptions(n, flagged) ==
    [i \in 1..n |-> [content |-> ToString(i), isRight |-> (i = flagged)]]

\* The requests of n questions: questionNumbers all different or all the
\* same, every question with 2..MaxOptions options, none or the first of
\* them flagged by the caller.
Requests(n) ==
    {[i \in 1..n |->
        [content |-> "body", title |-> "title", type |-> "option",
         answers |-> FlaggedOptions(opts, flags[i]),
         questionNumber |-> QuestionNumber(i, p)]] :
        opts \in 2..MaxOptions, flags \in [1..n -> {0, 1}], p \in {"distinct", "repeated"}}

\* results_map.get(...) finds no result.
NoResult == [kind |-> "None"]

\* results_map = {res.questionNumber: res for res in results}, read at qn:
\* a later result replaces an earlier one with the same questionNumber.
ResultsMapGet(results, qn) ==
    LET ks == {k \in 1..Len(results) : results[k].questionNumber = qn}
    IN  IF ks = {} THEN NoResult
        ELSE results[CHOOSE k \in ks : \A j \in ks : j <= k]

\* letter_to_index: the 0-based index of a letter in A..H, -1 for any other text.
LetterToIndex(letter) ==
    IF \E k \in 1..Len(letters) : letters[k] = letter
    THEN (CHOOSE k \in 1..Len(letters) : letters[k] = letter) - 1
    ELSE -1

\* Lines 220-229: the question with the option of the selected letter
\* marked; the other options keep their isRight.
MarkSelected(question, selected_letter) ==
    LET idx == LetterToIndex(selected_letter)
    IN  IF Populated(selected_letter) /\ idx >= 0 /\ idx < Len(question.answers)
        THEN [question EXCEPT !.answers[idx + 1].isRight = TRUE]
        ELSE question

HTTPException(status_code, detail) ==
    [kind |-> "HTTPException", status_code |-> status_code, detail |-> detail]

\* Lines 203-231 from question i on, updated being the questions done so far.
RECURSIVE UpdateQuestions(_, _, _, _)
UpdateQuestions(qs, results, i, updated) ==
    IF i > Len(qs) THEN [kind |-> "list", body |-> updated]
    ELSE LET result == ResultsMapGet(results, qs[i].questionNumber)
         IN  IF result = NoResult
             THEN HTTPException(500, "Failed to process question " \o qs[i].questionNumber)
             ELSE IF Populated(result.error)
             THEN HTTPException(500, "Question " \o result.questionNumber \o " failed: "
                                         \o result.error)
             ELSE UpdateQuestions(qs, results, i + 1,
                                  Append(updated, MarkSelected(qs[i], result.selectedAnswer)))

\* What answer_questions gives back for the request qs once process_questions
\* returned results.
EndpointResponse(qs, results) == UpdateQuestions(qs, results, 1, <<>>)

InitServer ==
    /\ max_concurrent_workers \in 1..MaxWorkers
    /\ semaphore = max_concurrent_workers
    /\ max_iterations = 1
    /\ cpc = [c \in Callers |-> "idle"]
    /\ questions = [c \in Callers |-> <<>>]
    /\ tasks = [c \in Callers |-> <<>>]
    /\ final_results = [c \in Callers |-> <<>>]
    /\ clock = 0
    /\ executor = IdleExecutor(1)
    /\ response = NoResponse
    \* no separate generate_response, validate_question or agent call is in progress
    /\ loop = IdleFrame
    /\ role_calls = <<>>
    /\ max_retries = 1
    /\ base_retry_delay_ms = 0
    /\ retry_multiplier = 1
    /\ attempt = 0
    /\ last_exception = NoneVal
    /\ gpc = "idle"
    /\ gresult = NoneVal
    /\ api_calls = <<>>
    /\ sleeps = <<>>
    /\ agent = IdleCall

\* answer_questions(questions) with an empty list: it returns [] (lines 166-170).
AnswerNoQuestions ==
    /\ cpc["c1"] = "idle"
    /\ response = NoResponse
    /\ response' = [kind |-> "list", body |-> <<>>]
    /\ UNCHANGED <<clientVars, loopVars, procVars, agentVars, clock, executor>>

\* answer_questions(questions) up to "await asyncio.gather(...)" inside
\* process_questions (lines 166-186, question_processor.py lines 40-46).
AnswerQuestions ==
    /\ cpc["c1"] = "idle"
    /\ response = NoResponse
    /\ \E n \in 1..MaxQuestions : \E qs \in Requests(n) :
        /\ questions' = [questions EXCEPT !["c1"] = qs]
        /\ tasks' = [tasks EXCEPT !["c1"] = [i \in 1..n |-> NewTask]]
        /\ cpc' = [cpc EXCEPT !["c1"] = "gathering"]
    /\ UNCHANGED <<max_concurrent_workers, semaphore, final_results, max_iterations>>
    /\ UNCHANGED nonProcVars

\* process_questions has returned: the endpoint builds its response
\* (lines 188-236).
Respond ==
    /\ cpc["c1"] = "returned"
    /\ response = NoResponse
    /\ response' = EndpointResponse(questions["c1"], final_results["c1"])
    /\ UNCHANGED <<clientVars, loopVars, procVars, agentVars, clock, executor>>

NextServer ==
    \/ AnswerNoQuestions
    \/ AnswerQuestions
    \/ GatherReturns("c1")
    \/ Respond
    \/ \E i \in 1..MaxQuestions :
        \/ StartTaskAcquires("c1", i)
        \/ StartTaskWaits("c1", i)
        \/ AcquireAfterWait("c1", i)
        \/ FinishValidation("c1", i)
        \/ CompleteTask("c1", i)

(***************************************************************************)
(* One validate_question call with the remote calls of its role calls      *)
(* visible: every answer_question / validate_answer call builds its        *)
(* prompt, calls generate_response once (answerer_agent.py line 149,       *)
(* validator_agent.py line 163) and parses the text; generate_response     *)
(* makes one generate_content call per attempt. Every entry of role_calls  *)
(* carries the number of generate_content calls made for it.               *)
(***************************************************************************)

\* What a role call can end with once generate_response returned a text:
\* the parsed response or the ValueError of _parse_response.
ParsedOutcomes(role) ==
    IF role = "answerer"
    THEN {[kind |-> "ok", selected_answer |-> "A", reasoning |-> "r1"],
          Raised("Could not extract label from response")}
    ELSE {[kind |-> "ok", verdict |-> "AGREE", criticism |-> NoneVal],
          [kind |-> "ok", verdict |-> "DISAGREE", criticism |-> "c1"],
          Raised("Could not extract label from response")}

\* The role whose call the loop is about to make.
RoleAt(ls) == IF ls.pc = "answer" THEN "answerer" ELSE "validator"

\* The loop after its current role call ended with outcome o.
RoleStep(ls, o, maxit) ==
    IF ls.pc = "answer" THEN AnswerStep(ls, o) ELSE ValidateStep(ls, o, maxit)

\* The entry of role_calls for the role call the loop is making.
RemoteCallLog(ls, remote, o) ==
    [role |-> RoleAt(ls),
     iteration |-> IF ls.pc = "answer" THEN ls.iteration + 1 ELSE ls.iteration,
     remote |-> remote, out |-> o]

InitRemote ==
    /\ max_iterations \in 1..MaxBatchIterations
    /\ loop = LoopStart(max_iterations)
    /\ role_calls = <<>>
    /\ max_retries \in 1..MaxRetries
    /\ base_retry_delay_ms = 0
    /\ retry_multiplier = 1
    /\ attempt = 0
    /\ last_exception = NoneVal
    /\ gpc = "idle"
    /\ gresult = NoneVal
    /\ api_calls = <<>>
    /\ sleeps = <<>>
    \* no process_questions call and no separate agent call is in progress
    /\ max_concurrent_workers = 1
    /\ semaphore = 1
    /\ cpc = [c \in Callers |-> "idle"]
    /\ questions = [c \in Callers |-> <<>>]
    /\ tasks = [c \in Callers |-> <<>>]
    /\ final_results = [c \in Callers |-> <<>>]
    /\ agent = IdleCall
    /\ clock = 0
    /\ executor = IdleExecutor(1)
    /\ response = NoResponse

\* The role call fails while it builds its prompt: no remote call is made
\* and the exception leaves validate_question.
RoleFailsBeforeRemote ==
    /\ loop.pc \in {"answer", "validate"}
    /\ gpc = "idle"
    /\ LET o == Raised("'QuestionItem' object has no attribute 'answer'")
       IN  /\ loop' = RoleStep(loop, o, max_iterations)
           /\ role_calls' = Append(role_calls, RemoteCallLog(loop, 0, o))
    /\ UNCHANGED max_iterations
    /\ UNCHANGED nonLoopVars

\* The role call has built its prompt and enters generate_response.
RemoteBegin ==
    /\ loop.pc \in {"answer", "validate"}
    /\ gpc = "idle"
    /\ gpc' = "attempt"
    /\ UNCHANGED <<max_retries, base_retry_delay_ms, retry_multiplier, attempt,
                   last_exception, gresult, api_calls, sleeps>>
    /\ UNCHANGED nonClientVars

\* generate_response returned a text: the role call parses it and the loop
\* goes on with the response or the ValueError. The frame of
\* generate_response is gone.
RoleEndsAfterText ==
    /\ loop.pc \in {"answer", "validate"}
    /\ gpc = "returned"
    /\ \E o \in ParsedOutcomes(RoleAt(loop)) :
        /\ loop' = RoleStep(loop, o, max_iterations)
        /\ role_calls' = Append(role_calls, RemoteCallLog(loop, Len(api_calls), o))
    /\ gpc' = "idle"
    /\ attempt' = 0
    /\ last_exception' = NoneVal
    /\ gresult' = NoneVal
    /\ api_calls' = <<>>
    /\ sleeps' = <<>>
    /\ UNCHANGED <<max_iterations, max_retries, base_retry_delay_ms, retry_multiplier>>
    /\ UNCHANGED <<procVars, agentVars, extVars>>

\* generate_response raised after its last attempt: the exception leaves
\* the role call and validate_question.
RoleEndsAfterExhaustion ==
    /\ loop.pc \in {"answer", "validate"}
    /\ gpc = "raised"
    /\ LET o == Raised("Gemini API call failed after retries")
       IN  /\ loop' = RoleStep(loop, o, max_iterations)
           /\ role_calls' = Append(role_calls, RemoteCallLog(loop, Len(api_calls), o))
    /\ gpc' = "idle"
    /\ attempt' = 0
    /\ last_exception' = NoneVal
    /\ gresult' = NoneVal
    /\ api_calls' = <<>>
    /\ sleeps' = <<>>
    /\ UNCHANGED <<max_iterations, max_retries, base_retry_delay_ms, retry_multiplier>>
    /\ UNCHANGED <<procVars, agentVars, extVars>>

NextRemote ==
    \/ RoleFailsBeforeRemote
    \/ RemoteBegin
    \/ AttemptSucceeds
    \/ AttemptFails
    \/ Backoff
    \/ Exhausted
    \/ RoleEndsAfterText
    \/ RoleEndsAfterExhaustion

(***************************************************************************)
(* Specifications.                                                         *)
(***************************************************************************)
SpecQuestion == InitQuestion /\ [][NextQuestion]_vars

SpecAgents == InitAgents /\ [][NextAgents]_vars

SpecWired == InitWired /\ [][NextWired]_vars

SpecClient == InitClient /\ [][NextClient]_vars

SpecLoop == InitLoop /\ [][NextLoop]_vars

\* validate_question runs in its own executor thread and every call of a
\* role agent eventually returns or raises: a call that can be made is made
\* and completes.
SpecLoopFair ==
    InitLoop /\ [][NextLoop]_vars /\ WF_vars(CallAnswerer) /\ WF_vars(CallValidator)

Spec == InitProc /\ [][NextProc]_vars

\* The steps of one caller's process_questions call.
NextGate ==
    \/ ProcessQuestions("c1")
    \/ GatherReturns("c1")
    \/ \E i \in 1..MaxQuestions :
        \/ StartTaskAcquires("c1", i)
        \/ StartTaskWaits("c1", i)
        \/ AcquireAfterWait("c1", i)
        \/ FinishValidation("c1", i)
        \/ CompleteTask("c1", i)

\* The processor starts as in InitTimed: a validator of one iteration.
\* The event loop runs every coroutine that is ready, a released permit
\* wakes a waiting coroutine, and every validate_question call in an
\* executor thread ends (every remote call returns or fails). Whether the
\* caller calls process_questions at all is left open.
SpecGate ==
    /\ InitTimed
    /\ [][NextGate]_vars
    /\ WF_vars(GatherReturns("c1"))
    /\ \A i \in 1..MaxQuestions :
        /\ WF_vars(StartTaskAcquires("c1", i) \/ StartTaskWaits("c1", i))
        /\ WF_vars(AcquireAfterWait("c1", i))
        /\ WF_vars(FinishValidation("c1", i))
        /\ WF_vars(CompleteTask("c1", i))

SpecTimed == InitTimed /\ [][NextTimed]_vars

SpecExecutor == InitExecutor /\ [][NextExecutor]_vars

SpecUnits == InitUnits /\ [][NextUnits]_vars

SpecServer == InitServer /\ [][NextServer]_vars

SpecRemote == InitRemote /\ [][NextRemote]_vars

(***************************************************************************)
(* Properties of generate_response (checked under SpecClient).             *)
(***************************************************************************)

\* The call of attempt k failed: it raised, or its response was absent or empty.
CallFailed(k) == ~(api_calls[k].kind = "text" /\ api_calls[k].val # "")

AllCallsFailed == \A k \in 1..Len(api_calls) : CallFailed(k)

\* D * B^(k-1): the wait the design prescribes between attempt k and attempt k+1.
PrescribedDelay(k) == base_retry_delay_ms * Pow(retry_multiplier, k - 1)

C8_FirstSuccessReturns ==
    /\ \A k \in 1..Len(api_calls) : ~CallFailed(k) =>
            /\ k = Len(api_calls)
            /\ k <= max_retries
            /\ gpc = "returned"
            /\ gresult = api_calls[k].val
            /\ Len(sleeps) = k - 1
            /\ ~ENABLED NextClient
    /\ gpc = "returned" =>
            /\ Len(api_calls) >= 1
            /\ ~CallFailed(Len(api_calls))

C8_Witness ==
    /\ gpc = "returned"
    /\ Len(api_calls) = 3
    /\ CallFailed(1) /\ CallFailed(2)
    /\ gresult = "t2"
    /\ Len(sleeps) = 2

\* The error attempt k ended with: the error the call raised, or the
\* "empty response" error raised for an absent or empty response.
ErrorOfAttempt(k) ==
    IF api_calls[k].kind = "error" THEN api_calls[k].val
    ELSE "Empty response from Gemini API"

\* C9: generate_response fails only after all M attempts have failed, and the
\* error it raises then names the retry exhaustion (after M attempts) and
\* carries the error of the M-th attempt, not that of an earlier one.
C9_RaisesOnlyWhenExhausted ==
    gpc = "raised" =>
        /\ Len(api_calls) = max_retries
        /\ AllCallsFailed
        /\ gresult.type = "Exception"
        /\ gresult.prefix = "Gemini API call failed after"
        /\ gresult.attempts = max_retries
        /\ gresult.cause = ErrorOfAttempt(max_retries)

C9_Witness ==
    /\ gpc = "raised"
    /\ max_retries = 3
    /\ api_calls[1] = [kind |-> "error", val |-> "e1"]
    /\ api_calls[3] = [kind |-> "error", val |-> "e2"]
    /\ gresult.cause = "e2"

\* The response of attempt k was absent (None) or textually empty.
EmptyResponse(k) ==
    \/ api_calls[k].kind = "none"
    \/ api_calls[k].kind = "text" /\ api_calls[k].val = ""

\* C10: an absent or empty response is handled exactly like a transport
\* error: it consumes one attempt, it is followed by the backoff wait of its
\* attempt when attempts remain (and by the exhaustion failure when none
\* remain), and it is never returned to the caller as a result.
C10_EmptyResponseIsFailure ==
    /\ attempt = Len(api_calls)
    /\ \A k \in 1..Len(api_calls) : EmptyResponse(k) =>
            /\ k < max_retries /\ (k < Len(api_calls) \/ gpc = "attempt") =>
                    /\ Len(sleeps) >= k
                    /\ sleeps[k] = PrescribedDelay(k)
            /\ k = Len(api_calls) =>
                    /\ gpc \in {"failed", "attempt", "raised"}
                    /\ last_exception = "Empty response from Gemini API"
            /\ k = max_retries =>
                    /\ gpc \in {"failed", "raised"}
                    /\ Len(sleeps) = max_retries - 1
    /\ gpc = "returned" => gresult \in Texts

C10_Witness ==
    /\ gpc = "returned"
    /\ Len(api_calls) = 3
    /\ api_calls[1] = [kind |-> "text", val |-> ""]
    /\ api_calls[2] = [kind |-> "none", val |-> NoneVal]
    /\ sleeps = <<1, 2>>

(***************************************************************************)
(* Properties of validate_question (checked under SpecLoop).               *)
(***************************************************************************)

AnswererCalls == {k \in 1..Len(role_calls) : role_calls[k].role = "answerer"}
ValidatorCalls == {k \in 1..Len(role_calls) : role_calls[k].role = "validator"}

\* Completed proposer/critic round-trips: the validator calls that returned
\* (each follows the answerer call of its iteration).
RoundTrips == Cardinality({k \in ValidatorCalls : role_calls[k].out.kind = "ok"})

NoRoleCallRaised == \A k \in 1..Len(role_calls) : role_calls[k].out.kind = "ok"

\* C4: a consensus loop never makes more than max_iterations proposer calls,
\* and one that returns a ValidationResult has performed between 1 and
\* max_iterations round-trips, its iterations field being exactly the number
\* of round-trips performed.
C4_IterationsWithinBound ==
    /\ Cardinality(AnswererCalls) <= max_iterations
    /\ Cardinality(ValidatorCalls) <= Cardinality(AnswererCalls)
    /\ loop.pc = "returned" =>
        /\ loop.result.kind = "ValidationResult"
        /\ NoRoleCallRaised
        /\ RoundTrips >= 1
        /\ RoundTrips <= max_iterations
        /\ Cardinality(AnswererCalls) = RoundTrips
        /\ loop.result.iterations = RoundTrips

C4_Witness ==
    /\ loop.pc = "returned"
    /\ max_iterations = 3
    /\ RoundTrips = 3
    /\ loop.result.iterations = 3

\* The validator call logged at position k returned AGREE.
AgreedAt(k) ==
    /\ role_calls[k].role = "validator"
    /\ role_calls[k].out.kind = "ok"
    /\ role_calls[k].out.verdict = "AGREE"

\* C5: when the critic returns AGREE on iteration i (after DISAGREE on the
\* iterations before), validate_question terminates at iteration i with
\* iterations = i, consensus_reached = TRUE and the selection the proposer
\* produced in iteration i, and no proposer or critic call follows the AGREE.
C5_AgreeTerminates ==
    \A k \in 1..Len(role_calls) : AgreedAt(k) =>
        /\ k = Len(role_calls)
        /\ k % 2 = 0
        /\ role_calls[k].iteration = k \div 2
        /\ role_calls[k].iteration <= max_iterations
        /\ role_calls[k - 1].role = "answerer"
        /\ role_calls[k - 1].iteration = k \div 2
        /\ \A j \in ValidatorCalls : j < k =>
               role_calls[j].out.kind = "ok" /\ role_calls[j].out.verdict = "DISAGREE"
        /\ loop.pc = "returned"
        /\ loop.result.kind = "ValidationResult"
        /\ loop.result.iterations = k \div 2
        /\ loop.result.consensus_reached = TRUE
        /\ loop.result.selected_answer = role_calls[k - 1].out.selected_answer
        /\ ~ENABLED NextLoop

C5_Witness ==
    /\ Len(role_calls) = 4
    /\ AgreedAt(4)
    /\ role_calls[1].out.selected_answer = "A"
    /\ role_calls[3].out.selected_answer = "B"
    /\ max_iterations = 3
    /\ loop.result.selected_answer = "B"
    /\ loop.result.iterations = 2

AllVerdictsDisagree ==
    \A k \in ValidatorCalls : role_calls[k].out.kind = "ok" => role_calls[k].out.verdict = "DISAGREE"

\* C6: when the critic returns DISAGREE on every iteration, validate_question
\* performs exactly max_iterations round-trips (it does not stop earlier and
\* does not go on), and returns consensus_reached = FALSE, iterations =
\* max_iterations and the selection proposed in the last iteration.
C6_AlwaysDisagreeForcedStop ==
    (AllVerdictsDisagree /\ NoRoleCallRaised) =>
        /\ RoundTrips <= max_iterations
        /\ loop.pc \in {"answer", "validate", "returned"}
        /\ (loop.pc = "returned") <=> (RoundTrips = max_iterations)
        /\ loop.pc = "returned" =>
            /\ Len(role_calls) = 2 * max_iterations
            /\ loop.result.kind = "ValidationResult"
            /\ loop.result.consensus_reached = FALSE
            /\ loop.result.iterations = max_iterations
            /\ loop.result.selected_answer =
                   role_calls[2 * max_iterations - 1].out.selected_answer
            /\ ~ENABLED NextLoop

C6_Witness ==
    /\ max_iterations = 3
    /\ loop.pc = "returned"
    /\ AllVerdictsDisagree
    /\ RoundTrips = 3
    /\ role_calls[1].out.selected_answer = "A"
    /\ role_calls[3].out.selected_answer = "A"
    /\ role_calls[5].out.selected_answer = "B"
    /\ loop.result = [kind |-> "ValidationResult", selected_answer |-> "B",
                      iterations |-> 3, consensus_reached |-> FALSE]

\* C13: validate_question does not recover from role failures: the first
\* proposer or critic call that raises (retry exhaustion or unparsable
\* response) ends validate_question with exactly that failure, and no
\* proposer or critic call is made afterwards.
C13_NoRoleRecovery ==
    /\ \A k \in 1..Len(role_calls) : role_calls[k].out.kind = "raise" =>
            /\ k = Len(role_calls)
            /\ loop.pc = "raised"
            /\ loop.result = Raised(role_calls[k].out.error)
            /\ ~ENABLED NextLoop
    /\ loop.pc = "raised" =>
            /\ Len(role_calls) >= 1
            /\ role_calls[Len(role_calls)].out.kind = "raise"

C13_Witness ==
    /\ max_iterations = 3
    /\ Len(role_calls) = 3
    /\ role_calls[2].out.kind = "ok" /\ role_calls[2].out.verdict = "DISAGREE"
    /\ role_calls[3].role = "answerer"
    /\ role_calls[3].out = Raised("Gemini API call failed after retries")
    /\ loop.pc = "raised"
    /\ loop.result = Raised("Gemini API call failed after retries")

\* validate_question has returned or raised.
LoopTerminated == loop.pc \in {"returned", "raised"}

\* The three ways validate_question ends: agreement, forced stop at the
\* bound, or the failure of its last role call.
EndedInAgreement ==
    /\ loop.pc = "returned"
    /\ loop.result.consensus_reached = TRUE
    /\ AgreedAt(Len(role_calls))
EndedInForcedStop ==
    /\ loop.pc = "returned"
    /\ loop.result.consensus_reached = FALSE
    /\ loop.result.iterations = max_iterations
    /\ ~AgreedAt(Len(role_calls))
EndedInRoleFailure ==
    /\ loop.pc = "raised"
    /\ role_calls[Len(role_calls)].out.kind = "raise"
    /\ loop.result = Raised(role_calls[Len(role_calls)].out.error)

\* C22: every role call eventually returning or failing, validate_question
\* always terminates, whatever the verdicts, after at most max_iterations
\* round-trips, and it ends in agreement, in a forced stop or in a propagated
\* role failure.
C22_LoopTerminates ==
    /\ <>LoopTerminated
    /\ [](RoundTrips <= max_iterations /\ Cardinality(AnswererCalls) <= max_iterations)
    /\ [](LoopTerminated => (EndedInAgreement \/ EndedInForcedStop \/ EndedInRoleFailure))

C22_Witness ==
    /\ max_iterations = 3
    /\ Len(role_calls) = 6
    /\ RoundTrips = 2
    /\ EndedInRoleFailure
    /\ role_calls[6].role = "validator"

\* C26: the answerer call of iteration 1 is given no previous answer and no
\* criticism; the answerer call of an iteration i > 1 is given the selection
\* the answerer returned in iteration i-1 and the criticism the validator
\* returned in iteration i-1, the two calls right before it.
C26_ProposerArguments ==
    \A k \in AnswererCalls :
        LET call == role_calls[k]
        IN  IF call.iteration = 1
            THEN /\ k = 1
                 /\ call.previous_answer = NoneVal
                 /\ call.criticism = NoneVal
            ELSE /\ k >= 3
                 /\ role_calls[k - 2].role = "answerer"
                 /\ role_calls[k - 2].iteration = call.iteration - 1
                 /\ role_calls[k - 2].out.kind = "ok"
                 /\ call.previous_answer = role_calls[k - 2].out.selected_answer
                 /\ role_calls[k - 1].role = "validator"
                 /\ role_calls[k - 1].iteration = call.iteration - 1
                 /\ role_calls[k - 1].out.kind = "ok"
                 /\ call.criticism = role_calls[k - 1].out.criticism

\* Witness for C26: the third answerer call is given "B" and "c1" of
\* iteration 2, iteration 1 having produced "A" and no criticism.
C26_Witness ==
    /\ Len(role_calls) >= 5
    /\ role_calls[1].out.kind = "ok" /\ role_calls[1].out.selected_answer = "A"
    /\ role_calls[2].out.kind = "ok" /\ role_calls[2].out.criticism = NoneVal
    /\ role_calls[3].out.kind = "ok" /\ role_calls[3].out.selected_answer = "B"
    /\ role_calls[3].previous_answer = "A" /\ role_calls[3].criticism = NoneVal
    /\ role_calls[4].out.kind = "ok" /\ role_calls[4].out.criticism = "c1"
    /\ role_calls[5].iteration = 3
    /\ role_calls[5].previous_answer = "B"
    /\ role_calls[5].criticism = "c1"

\* C27: answerer and validator calls alternate, the answerer first: the
\* validator call of iteration i comes right after the answerer call of
\* iteration i, which returned, and is given the selection and the reasoning
\* that call returned.
C27_StrictAlternation ==
    \A k \in 1..Len(role_calls) :
        IF k % 2 = 1
        THEN /\ role_calls[k].role = "answerer"
             /\ role_calls[k].iteration = (k + 1) \div 2
        ELSE /\ role_calls[k].role = "validator"
             /\ role_calls[k].iteration = k \div 2
             /\ role_calls[k - 1].role = "answerer"
             /\ role_calls[k - 1].iteration = role_calls[k].iteration
             /\ role_calls[k - 1].out.kind = "ok"
             /\ role_calls[k].selected_answer = role_calls[k - 1].out.selected_answer
             /\ role_calls[k].reasoning = role_calls[k - 1].out.reasoning

\* Witness for C27: two iterations; the validator of iteration 2 is given
\* the "B" and "r2" of iteration 2, not the "A" and "r1" of iteration 1.
C27_Witness ==
    /\ Len(role_calls) = 4
    /\ role_calls[1].role = "answerer" /\ role_calls[1].out.kind = "ok"
    /\ role_calls[1].out.selected_answer = "A" /\ role_calls[1].out.reasoning = "r1"
    /\ role_calls[2].role = "validator" /\ role_calls[2].selected_answer = "A"
    /\ role_calls[2].reasoning = "r1"
    /\ role_calls[3].role = "answerer" /\ role_calls[3].out.kind = "ok"
    /\ role_calls[3].out.selected_answer = "B" /\ role_calls[3].out.reasoning = "r2"
    /\ role_calls[4].role = "validator" /\ role_calls[4].selected_answer = "B"
    /\ role_calls[4].reasoning = "r2"
    /\ role_calls[4].iteration = 2

(***************************************************************************)
(* Properties of process_questions (checked under Spec).                   *)
(***************************************************************************)

\* C1: process_questions returns a list of exactly the length of its input
\* in which the result at position i is the result of the coroutine of the
\* question at position i and carries that question's questionNumber,
\* whatever mix of succeeding and failing questions and whatever completion
\* order, repeated identifiers included.
C1_ResultsMatchInput ==
    \A c \in Callers : cpc[c] = "returned" =>
        /\ Len(final_results[c]) = Len(questions[c])
        /\ \A i \in 1..Len(questions[c]) :
            /\ final_results[c][i].kind = "AnswerResult"
            /\ final_results[c][i].questionNumber = questions[c][i].questionNumber
            /\ final_results[c][i] = tasks[c][i].ret

C1_Witness ==
    /\ cpc["c1"] = "returned"
    /\ Len(questions["c1"]) = 2
    /\ questions["c1"][1].questionNumber = "1"
    /\ questions["c1"][2].questionNumber = "2"
    /\ final_results["c1"][1].questionNumber = "1"
    /\ final_results["c1"][1].error # NoneVal
    /\ final_results["c1"][2].questionNumber = "2"
    /\ final_results["c1"][2].selectedAnswer = "B"

\* The questions whose validate_question has started and not yet finished.
Running == {t \in TaskIds : tasks[t[1]][t[2]].pc = "validating"}

\* C2: at every moment at most K = max_concurrent_workers consensus loops
\* have started and not yet finished, batches larger than K and overlapping
\* process_questions calls included.
C2_AtMostKRunning == Cardinality(Running) <= max_concurrent_workers

C2_Witness ==
    /\ max_concurrent_workers = 1
    /\ cpc["c1"] = "gathering" /\ cpc["c2"] = "gathering"
    /\ Len(tasks["c1"]) = 1 /\ Len(tasks["c2"]) = 1
    /\ tasks["c2"][1].pc = "validating"
    /\ tasks["c1"][1].pc = "waiting"

\* The result the design prescribes for a question whose validate_question
\* ended with v: the failure as an error result without selection, or the
\* loop's own selection and iteration count without error.
IsResultOf(r, q, v) ==
    /\ r.kind = "AnswerResult"
    /\ r.questionNumber = q.questionNumber
    /\ v.kind = "raise" =>
        /\ r.error = v.error
        /\ r.error # NoneVal
        /\ r.selectedAnswer = NoneVal
    /\ v.kind = "ValidationResult" =>
        /\ r.error = NoneVal
        /\ r.selectedAnswer = v.selected_answer
        /\ r.validationIterations = v.iterations

\* C3: when the consensus loop of a question raises, process_questions still
\* returns normally with one result per question: the failed question has an
\* error result carrying its failure, every question of the batch has run its
\* own loop to the end (none was aborted), and every question whose own loop
\* succeeded has a successful result with its own selection; a call that is
\* still gathering can always proceed.
C3_FailureIsolated ==
    \A c \in Callers :
        /\ \A i \in 1..Len(tasks[c]) : tasks[c][i].pc = "done" =>
               IsResultOf(tasks[c][i].ret, questions[c][i], tasks[c][i].validation)
        /\ cpc[c] = "returned" =>
            /\ Len(final_results[c]) = Len(questions[c])
            /\ \A i \in 1..Len(questions[c]) :
                /\ tasks[c][i].pc = "done"
                /\ IsResultOf(final_results[c][i], questions[c][i], tasks[c][i].validation)
        /\ cpc[c] = "gathering" => ENABLED NextProc

C3_Witness ==
    /\ cpc["c1"] = "returned"
    /\ Len(final_results["c1"]) = 2
    /\ tasks["c1"][1].validation = Raised("Gemini API call failed after retries")
    /\ tasks["c1"][2].validation = ValidationResult("B", 2, FALSE)
    /\ final_results["c1"][1] =
           AnswerResult("1", NoneVal, "Gemini API call failed after retries", 0)
    /\ final_results["c1"][2] = AnswerResult("2", "B", NoneVal, 2)

\* The coroutines that are inside "async with self.semaphore": they took a
\* permit and have not given it back.
PermitHolders == {t \in TaskIds : tasks[t[1]][t[2]].pc \in {"validating", "validated"}}

\* C21: process_questions on an empty batch returns an empty list without
\* touching the semaphore: the call creates no coroutine, so it starts no
\* validate_question and holds no permit, and the free permits are the K of
\* the processor minus those held by the coroutines of other calls (all K
\* when no other call is in progress).
C21_EmptyBatch ==
    /\ semaphore = max_concurrent_workers - Cardinality(PermitHolders)
    /\ \A c \in Callers : (cpc[c] = "returned" /\ questions[c] = <<>>) =>
           /\ final_results[c] = <<>>
           /\ tasks[c] = <<>>
           /\ \A t \in PermitHolders : t[1] # c
           /\ (\A d \in Callers \ {c} : cpc[d] \in {"idle", "returned"}) =>
                  semaphore = max_concurrent_workers

C21_Witness ==
    /\ cpc["c1"] = "returned"
    /\ questions["c1"] = <<>>
    /\ final_results["c1"] = <<>>
    /\ cpc["c2"] = "gathering"
    /\ tasks["c2"][1].pc = "validating"
    /\ max_concurrent_workers = 2
    /\ semaphore = 1

\* C11: every AnswerResult returned by process_questions has exactly one of
\* selectedAnswer and error populated, never both and never neither, for every
\* failure the loop can raise, a failure with an empty message included.
C11_ExactlyOnePopulated ==
    \A c \in Callers : cpc[c] = "returned" =>
        \A i \in 1..Len(final_results[c]) :
            Populated(final_results[c][i].selectedAnswer)
                # Populated(final_results[c][i].error)

(***************************************************************************)
(* Properties of one question's run (checked under SpecQuestion).          *)
(***************************************************************************)

\* The role call that raised, if any: it is the last one made.
FailedCall == role_calls[Len(role_calls)]

\* C12: whenever the consensus loop of a question fails, in the proposer or
\* the critic, in the first iteration or after completed round-trips, the
\* question's result carries the message of that failure, validationIterations
\* = 0 and no selection (none of the selections of earlier iterations).
C12_FailedLoopResult ==
    (tasks["c1"] # <<>> /\ tasks["c1"][1].pc = "done" /\ loop.pc = "raised") =>
        /\ FailedCall.out.kind = "raise"
        /\ tasks["c1"][1].ret.error = FailedCall.out.error
        /\ tasks["c1"][1].ret.validationIterations = 0
        /\ tasks["c1"][1].ret.selectedAnswer = NoneVal
        /\ tasks["c1"][1].ret.questionNumber = questions["c1"][1].questionNumber
        /\ cpc["c1"] = "returned" => final_results["c1"] = <<tasks["c1"][1].ret>>

C12_Witness ==
    /\ cpc["c1"] = "returned"
    /\ Len(role_calls) = 4
    /\ role_calls[1].out.kind = "ok" /\ role_calls[1].out.selected_answer = "A"
    /\ role_calls[2].out.kind = "ok" /\ role_calls[2].out.verdict = "DISAGREE"
    /\ role_calls[3].out.kind = "ok" /\ role_calls[3].out.selected_answer = "B"
    /\ role_calls[4].out = Raised("Could not extract label from response")
    /\ final_results["c1"] =
           <<AnswerResult("1", NoneVal, "Could not extract label from response", 0)>>

(***************************************************************************)
(* Properties of the role agents (checked under SpecAgents).               *)
(***************************************************************************)

\* C15: for every valid question (2 to 8 options) answer_question builds its
\* prompt without failing, the prompt lists all options of the question as a
\* lettered list A, B, C, ... in their original order, and the prompt is sent
\* through generate_response.
C15_ProposerBuildsPrompt ==
    (agent.method = "answer_question" /\ agent.pc # "build") =>
        /\ agent.prompt # NoneVal
        /\ Len(agent.prompt.answer_list) = Len(agent.question.answers)
        /\ \A i \in 1..Len(agent.question.answers) :
               agent.prompt.answer_list[i].letter = letters[i]
        /\ agent.pc = "raised" => agent.result # Raised("'QuestionItem' object has no attribute 'answer'")

\* The agent call has parsed its response text (its result is the outcome of
\* _parse_response).
Parsed(role) ==
    /\ agent.role = role
    /\ agent.response_text # <<>>
    /\ agent.pc \in {"returned", "raised"}

\* Some line of the text starts with the label.
HasLabel(text, label) == \E k \in 1..Len(text) : text[k].label = label

\* A line of an answerer response that carries one of the two labels.
AnswererLabelled(line) == line.label \in {"SELECTED:", "REASONING:"}

\* C16: the proposer's parse fails (ValueError, the malformed-response
\* failure) when the response has no SELECTED line, no REASONING line, or
\* neither; when both labels occur, in either order, the outcome is the one
\* of the same response without its unrecognized lines: extra lines neither
\* cause a failure nor change the parsed selection and rationale.
C16_ProposerParse ==
    Parsed("answerer") =>
        /\ ~HasLabel(agent.response_text, "SELECTED:") =>
               /\ agent.pc = "raised"
               /\ agent.result = Raised("Could not extract SELECTED from response")
        /\ (HasLabel(agent.response_text, "SELECTED:")
                /\ ~HasLabel(agent.response_text, "REASONING:")) =>
               /\ agent.pc = "raised"
               /\ agent.result \in {Raised("Could not extract REASONING from response"),
                                    Raised("Could not extract SELECTED from response")}
        /\ (HasLabel(agent.response_text, "SELECTED:")
                /\ HasLabel(agent.response_text, "REASONING:")) =>
               agent.result =
                   ParseAnswererResponse(SelectSeq(agent.response_text, AnswererLabelled))
        /\ agent.pc = "returned" =>
               /\ \E k \in 1..Len(agent.response_text) :
                      /\ agent.response_text[k].label = "SELECTED:"
                      /\ agent.response_text[k].value = agent.result.selected_answer
               /\ \E k \in 1..Len(agent.response_text) :
                      /\ agent.response_text[k].label = "REASONING:"
                      /\ agent.response_text[k].value = agent.result.reasoning

C16_Witness ==
    /\ Parsed("answerer")
    /\ agent.response_text = <<[label |-> "REASONING:", value |-> "r1"],
                               [label |-> "", value |-> "note"],
                               [label |-> "SELECTED:", value |-> "C"]>>
    /\ agent.pc = "returned"
    /\ agent.result = [kind |-> "ok", selected_answer |-> "C", reasoning |-> "r1"]

\* The position of the first line of the text that starts with the label
\* (0 when there is none).
FirstLine(text, label) ==
    IF HasLabel(text, label)
    THEN CHOOSE k \in 1..Len(text) :
             /\ text[k].label = label
             /\ \A j \in 1..(k - 1) : text[j].label # label
    ELSE 0

\* C17: when a label occurs on more than one line of a response, the value
\* parsed for it is the value of its first occurrence: later SELECTED,
\* REASONING, VERDICT or CRITICISM lines are ignored.
C17_FirstOccurrenceWins ==
    /\ (Parsed("answerer") /\ agent.pc = "returned") =>
           /\ agent.result.selected_answer =
                  agent.response_text[FirstLine(agent.response_text, "SELECTED:")].value
           /\ agent.result.reasoning =
                  agent.response_text[FirstLine(agent.response_text, "REASONING:")].value
    /\ (Parsed("validator") /\ agent.pc = "returned") =>
           /\ agent.result.verdict =
                  Upper(agent.response_text[FirstLine(agent.response_text, "VERDICT:")].value)
           /\ HasLabel(agent.response_text, "CRITICISM:") =>
                  agent.result.criticism =
                      agent.response_text[FirstLine(agent.response_text, "CRITICISM:")].value

\* The verdict a line spells, ignoring case: AGREE, DISAGREE, or none.
VerdictSpelled(line) ==
    IF line.label # "VERDICT:" THEN NoneVal
    ELSE IF line.value \in {"AGREE", "agree"} THEN "AGREE"
    ELSE IF line.value \in {"DISAGREE", "disagree"} THEN "DISAGREE"
    ELSE NoneVal

\* C18: the critic's parse yields a verdict only from a VERDICT line whose
\* value is AGREE or DISAGREE ignoring case; a VERDICT line with another value
\* counts as no verdict line; a response without valid verdict makes the
\* review fail (ValueError, the malformed-response failure); every
\* ValidatorResponse produced has verdict AGREE or DISAGREE.
C18_CriticVerdict ==
    Parsed("validator") =>
        /\ (agent.pc = "returned") <=>
               (\E k \in 1..Len(agent.response_text) :
                    VerdictSpelled(agent.response_text[k]) # NoneVal)
        /\ agent.pc = "raised" =>
               agent.result = Raised("Could not extract VERDICT from response")
        /\ agent.pc = "returned" =>
               /\ agent.result.kind = "ok"
               /\ agent.result.verdict \in {"AGREE", "DISAGREE"}
               /\ \E k \in 1..Len(agent.response_text) :
                      VerdictSpelled(agent.response_text[k]) = agent.result.verdict

C18_Witness ==
    /\ Parsed("validator")
    /\ agent.response_text = <<[label |-> "VERDICT:", value |-> "maybe"],
                               [label |-> "CRITICISM:", value |-> "c1"],
                               [label |-> "VERDICT:", value |-> "agree"]>>
    /\ agent.pc = "returned"
    /\ agent.result = [kind |-> "ok", verdict |-> "AGREE", criticism |-> "c1"]

\* The response disagrees and gives no criticism: some VERDICT line spells
\* DISAGREE, none spells AGREE, and no CRITICISM line has a value.
DisagreesWithoutCriticism(text) ==
    /\ \E k \in 1..Len(text) : VerdictSpelled(text[k]) = "DISAGREE"
    /\ \A k \in 1..Len(text) : VerdictSpelled(text[k]) # "AGREE"
    /\ \A k \in 1..Len(text) : text[k].label = "CRITICISM:" => text[k].value = ""

\* C19: a DISAGREE verdict without criticism is not a failure: the review
\* returns a DISAGREE response with empty criticism, and the proposer call
\* that follows it, receiving the previous answer and an empty criticism,
\* builds its prompt, without the reconsider block.
C19_DisagreeWithoutCriticism ==
    /\ (Parsed("validator") /\ DisagreesWithoutCriticism(agent.response_text)) =>
           /\ agent.pc = "returned"
           /\ agent.result.verdict = "DISAGREE"
           /\ ~Populated(agent.result.criticism)
    /\ (agent.method = "answer_question" /\ agent.pc # "build"
            /\ Populated(agent.previous_answer) /\ ~Populated(agent.criticism)) =>
           /\ agent.prompt # NoneVal
           /\ agent.prompt.reconsider = NoneVal

\* C20: the selection of every AnswererResponse is one of the option
\* identifiers of the question it answers: a letter whose position is within
\* the question's number of options.
C20_SelectionIsOption ==
    (Parsed("answerer") /\ agent.pc = "returned") =>
        \E i \in 1..Len(agent.question.answers) : agent.result.selected_answer = letters[i]

(***************************************************************************)
(* Properties of the wired QuestionProcessor (checked under SpecWired).    *)
(***************************************************************************)

\* In the run of question i no remote call failed and the critic, whenever
\* it gave a verdict, agreed.
AllSucceedAndAgree(i) ==
    \A k \in 1..Len(tasks["c1"][i].calls) :
        LET call == tasks["c1"][i].calls[k]
        IN  /\ call.remote # "failed"
            /\ (call.role = "validator" /\ call.out.kind = "ok") => call.out.verdict = "AGREE"

\* C14: for a batch of 3 valid questions with max_concurrent_workers = 2,
\* every remote call succeeding and the critic agreeing on the first
\* iteration, process_questions returns 3 successful results (no error), each
\* with validationIterations = 1, and the third question, while it waits for
\* the gate, can start as soon as a permit is free.
C14_ThreeQuestionsTwoWorkers ==
    (Len(questions["c1"]) = 3 /\ max_concurrent_workers = 2) =>
        /\ (cpc["c1"] = "returned" /\ \A i \in 1..3 : AllSucceedAndAgree(i)) =>
               \A i \in 1..3 :
                   /\ final_results["c1"][i].error = NoneVal
                   /\ Populated(final_results["c1"][i].selectedAnswer)
                   /\ final_results["c1"][i].validationIterations = 1
        /\ (tasks["c1"][3].pc = "waiting" /\ semaphore > 0) =>
               ENABLED AcquireAfterWait("c1", 3)

\* The coroutines that have returned.
Completed == {t \in TaskIds : tasks[t[1]][t[2]].pc = "done"}

\* C29: a coroutine holds exactly one permit from its acquisition until it
\* has built its result, whether validate_question returned or raised: the
\* free permits are always the K permits less the coroutines in between,
\* a completed coroutine holds none, and when every coroutine of every
\* batch has completed all K permits are free again.
C29_PermitsReleased ==
    /\ semaphore >= 0
    /\ semaphore + Cardinality(PermitHolders) = max_concurrent_workers
    /\ PermitHolders \cap Completed = {}
    /\ (TaskIds = Completed) => semaphore = max_concurrent_workers

\* Witness for C29: with one permit, the only question of the first batch
\* failed and the call returned; the question of a later batch holds the
\* permit.
C29_Witness ==
    /\ max_concurrent_workers = 1
    /\ cpc["c1"] = "returned"
    /\ Len(final_results["c1"]) = 1
    /\ final_results["c1"][1].error = "Gemini API call failed after retries"
    /\ cpc["c2"] = "gathering"
    /\ tasks["c2"][1].pc = "validating"
    /\ semaphore = 0

(***************************************************************************)
(* Properties of the elapsed time (checked under SpecTimed).               *)
(***************************************************************************)

\* The coroutines of caller "c1" that have built their result.
TimedDone == {i \in 1..Len(tasks["c1"]) : tasks["c1"][i].pc = "done"}

\* C23: the processingTimeMs of every result, successful or failed, is the
\* time in whole milliseconds from the moment its coroutine got the permit
\* to the moment it had the outcome of its loop: the clock is started at the
\* acquisition, never before, so the time the coroutine waited for a permit
\* is not counted, and the result process_questions returns for a failed
\* question carries that measured time.
C23_ElapsedFromAcquisition ==
    \A i \in TimedDone :
        LET t == tasks["c1"][i]
        IN  /\ t.arrived <= t.acquired
            /\ t.start_time = t.acquired
            /\ t.acquired <= t.completed
            /\ t.ret.processingTimeMs = (t.completed - t.acquired) \div TicksPerMs
            /\ cpc["c1"] = "returned" =>
                   /\ final_results["c1"][i] = t.ret
                   /\ final_results["c1"][i].processingTimeMs
                          = (t.completed - t.acquired) \div TicksPerMs

\* Witness for C23: the second question waited for the permit of the first,
\* then failed, and the result returned for it carries one millisecond
\* although two milliseconds passed since its coroutine arrived.
C23_Witness ==
    /\ cpc["c1"] = "returned"
    /\ Len(tasks["c1"]) = 2
    /\ tasks["c1"][2].arrived < tasks["c1"][2].acquired
    /\ final_results["c1"][2].error # NoneVal
    /\ final_results["c1"][2].processingTimeMs = 1
    /\ (tasks["c1"][2].completed - tasks["c1"][2].arrived) \div TicksPerMs = 2
    /\ final_results["c1"][1].error = NoneVal
    /\ final_results["c1"][1].processingTimeMs = 1

(***************************************************************************)
(* Properties of the executor (checked under SpecExecutor).                *)
(***************************************************************************)

\* The coroutines of caller "c1" that hold a permit.
GateHolders ==
    {i \in 1..Len(tasks["c1"]) : tasks["c1"][i].pc \in {"queued", "validating", "validated"}}

\* C24: a coroutine that holds a permit never waits for another question:
\* its validate_question call is running in a thread or is over, whatever
\* max_concurrent_workers and the size of the batch are.
C24_HolderNeverWaits ==
    \A i \in GateHolders : tasks["c1"][i].pc # "queued"

(***************************************************************************)
(* Properties of concurrent validate_question calls (checked under         *)
(* SpecUnits).                                                             *)
(***************************************************************************)

\* The coroutines of caller "c1" whose validate_question call has begun.
Units == {i \in 1..Len(tasks["c1"]) : tasks["c1"][i].frame # IdleFrame}

\* The answerer calls made for coroutine i that returned.
OwnAnswers(i) ==
    {k \in 1..Len(tasks["c1"][i].calls) :
        tasks["c1"][i].calls[k].role = "answerer" /\ tasks["c1"][i].calls[k].out.kind = "ok"}

\* The validator calls made for coroutine i that returned DISAGREE.
OwnDisagreements(i) ==
    {k \in 1..Len(tasks["c1"][i].calls) :
        /\ tasks["c1"][i].calls[k].role = "validator"
        /\ tasks["c1"][i].calls[k].out.kind = "ok"
        /\ tasks["c1"][i].calls[k].out.verdict = "DISAGREE"}

\* C25: whatever the interleaving of the validate_question calls of a batch,
\* the iteration counter of a question counts its own answerer calls, and
\* the previous answer and criticism given to its answerer are those its own
\* last answerer call and its own last validator call returned.
C25_NoSharedLoopState ==
    \A i \in Units :
        LET calls == tasks["c1"][i].calls
            ls == tasks["c1"][i].frame
        IN  /\ ls.iteration = Cardinality({k \in 1..Len(calls) : calls[k].role = "answerer"})
            /\ \A k \in 1..Len(calls) :
                /\ calls[k].iteration = (k + 1) \div 2
                /\ (calls[k].role = "answerer" /\ k = 1) =>
                       calls[k].previous_answer = NoneVal /\ calls[k].criticism = NoneVal
                /\ (calls[k].role = "answerer" /\ k > 1) =>
                       /\ k - 2 \in OwnAnswers(i)
                       /\ k - 1 \in OwnDisagreements(i)
                       /\ calls[k].previous_answer = calls[k - 2].out.selected_answer
                       /\ calls[k].criticism = calls[k - 1].out.criticism
                /\ calls[k].role = "validator" =>
                       /\ k - 1 \in OwnAnswers(i)
                       /\ calls[k].selected_answer = calls[k - 1].out.selected_answer
                       /\ calls[k].reasoning = calls[k - 1].out.reasoning

\* Witness for C25: two questions in their loops at the same time, the
\* first in iteration 1 with "A" proposed, the second about to propose again
\* after its own "B" and "c1", the calls of the two being interleaved.
C25_Witness ==
    /\ Len(tasks["c1"]) = 2
    /\ tasks["c1"][1].pc = "validating" /\ tasks["c1"][2].pc = "validating"
    /\ tasks["c1"][1].frame.iteration = 1
    /\ tasks["c1"][1].frame.pc = "validate"
    /\ tasks["c1"][1].frame.current_answer = "A"
    /\ tasks["c1"][2].frame.iteration = 2
    /\ tasks["c1"][2].frame.pc = "validate"
    /\ Len(tasks["c1"][2].calls) = 3
    /\ tasks["c1"][2].calls[3].previous_answer = "B"
    /\ tasks["c1"][2].calls[3].criticism = "c1"

(***************************************************************************)
(* Properties of the answer_questions endpoint (checked under SpecServer). *)
(***************************************************************************)

\* The options of question q that carry isRight = TRUE.
RightOptions(q) == {k \in 1..Len(q.answers) : q.answers[k].isRight}

\* C28: a list returned by answer_questions has the questions of the request
\* in their order, and every question has isRight = TRUE on exactly one
\* option, the one at the position of the letter that the validation of
\* this very question selected, also when questions share a questionNumber
\* or options were flagged in the request.
C28_MarksSelectedOption ==
    response.kind = "list" =>
        /\ Len(response.body) = Len(questions["c1"])
        /\ \A i \in 1..Len(response.body) :
            /\ response.body[i].questionNumber = questions["c1"][i].questionNumber
            /\ tasks["c1"][i].validation.kind = "ValidationResult"
            /\ RightOptions(response.body[i])
                   = {LetterToIndex(tasks["c1"][i].validation.selected_answer) + 1}

(***************************************************************************)
(* Properties of the remote calls of one question (checked under           *)
(* SpecRemote).                                                            *)
(***************************************************************************)

\* The generate_content calls of the first k role calls.
RECURSIVE RemoteCallsOf(_)
RemoteCallsOf(k) == IF k = 0 THEN 0 ELSE role_calls[k].remote + RemoteCallsOf(k - 1)

\* The generate_content calls made for the question so far: those of the
\* role calls that are over and those of the role call in progress.
RemoteCalls ==
    RemoteCallsOf(Len(role_calls)) + (IF gpc = "idle" THEN 0 ELSE Len(api_calls))

\* C30: the generate_content calls made for one question never exceed
\* 2 * max_iterations * max_retries, whichever calls fail and whatever the
\* verdicts are; every role call accounts for at most max_retries of them.
C30_RemoteCallBound ==
    /\ RemoteCalls <= 2 * max_iterations * max_retries
    /\ Len(role_calls) <= 2 * max_iterations
    /\ \A k \in 1..Len(role_calls) : role_calls[k].remote <= max_retries

\* Witness for C30: two iterations of two attempts per role call, eight
\* generate_content calls, the loop ending without agreement.
C30_Witness ==
    /\ max_iterations = 2
    /\ max_retries = 2
    /\ loop.pc = "returned"
    /\ loop.result.consensus_reached = FALSE
    /\ RemoteCalls = 8
    /\ \A k \in 1..Len(role_calls) : role_calls[k].remote = 2

(***************************************************************************)
(* Properties of the gate under fair scheduling (checked under SpecGate).  *)
(***************************************************************************)

\* Coroutine i of the call has not got its permit yet.
NotAdmitted(i) == i <= Len(tasks["c1"]) /\ tasks["c1"][i].pc \in {"created", "waiting"}

\* Coroutine i of the call has got its permit.
Admitted(i) ==
    i <= Len(tasks["c1"]) /\ tasks["c1"][i].pc \in {"validating", "validated", "done"}

\* C31: when every validate_question call ends, every question of a batch,
\* also of one with more questions than permits, eventually gets a permit,
\* and process_questions eventually returns one result per question.
C31_EveryQuestionAdmitted ==
    /\ \A i \in 1..MaxQuestions : NotAdmitted(i) ~> Admitted(i)
    /\ (cpc["c1"] = "gathering")
           ~> (cpc["c1"] = "returned" /\ Len(final_results["c1"]) = Len(questions["c1"]))

\* Witness for C31: with one permit a call with two questions has
\* returned its two results, the first of a failed question: both
\* questions got the permit, one after the other.
C31_Witness ==
    /\ max_concurrent_workers = 1
    /\ cpc["c1"] = "returned"
    /\ Len(questions["c1"]) = 2
    /\ Len(final_results["c1"]) = 2
    /\ final_results["c1"][1].error # NoneVal
    /\ final_results["c1"][2].error = NoneVal

====
